---- MODULE Spec2Model ----
(***************************************************************************)
(* Session-state and moderation-coordination core of the live audio        *)
(* sanctuary backend: RedisSessionManager (session snapshots, roster,      *)
(* moderation log, emergency alerts), AIModerationService (rule + AI       *)
(* analysis, action dispatch), ModerationHandlers and VoiceHandlers        *)
(* (socket event handlers).                                                *)
(*                                                                         *)
(* Each component has its own specification over the shared variables:     *)
(*   SpecRoster   updateParticipant / removeParticipant on stored sessions *)
(*   SpecHandlers sanctuary_message, voice_stream_start / _end handlers    *)
(*                and handleDisconnect, per connected socket               *)
(*   SpecAlert    emergency_alert handler                                  *)
(*   SpecAnalyze  analyzeContent: rule stage, AI stage, moderation log     *)
(***************************************************************************)
EXTENDS Integers, Sequences, FiniteSets, TLC

\* ------------------------------------------------------------------ bounds
\* Number of updateParticipant / removeParticipant calls in one behaviour.
MaxCalls == 2

\* Number of socket events (messages, voice starts / ends, disconnects)
\* received in one behaviour.
MaxEvents == 2

\* Number of analyzeContent calls in one behaviour.
MaxAnalyses == 2

\* Date.now() runs from 0 to MaxTime.
MaxTime == 1

\* executeModerationAction is invoked at most MaxExecs times.
MaxExecs == 2

\* getModerationLogs is called with a limit of 1..MaxLimit.
MaxLimit == 2

\* setSessionState, getSessionState and healthCheck are called at most
\* MaxStoreCalls times in all.
MaxStoreCalls == 3

\* maxParticipants of the scheduled session.
MaxParticipants == 2

\* Number of requests on the scheduled session (document method calls,
\* register, start and join requests) in one behaviour.
MaxReqs == 4

\* onEvent is called at most MaxRegs times.
MaxRegs == 3

\* ------------------------------------------------------------- value sets
\* Event names the client subscribes to.
Events == {"participant_joined", "emergency_alert"}

\* No handler: Map.get(event) is undefined.
NoHandler == 0


\* Session identifiers are client-supplied strings (data.sanctuaryId,
\* data.sessionId); Tokens gives the characters of each, in pieces.
Sessions == {"A", "moderators_A"}

Tokens(s) == IF s = "A" THEN <<"A">> ELSE <<"moderators", "_", "A">>
Pids == {"p1", "p2"}
\* participantData without an id property
NoId == "none"
\* A reference that is null / a property that is undefined.
NoRef == 0
\* currentParticipants of a snapshot that never had the property
NoCount == -1

\* participantData objects a caller may pass: a non-identity field v, and
\* optionally an id property of its own (participant objects carry one).
DataSet ==
  { [id |-> NoId, v |-> "a"], [id |-> NoId, v |-> "b"], [id |-> "p2", v |-> "a"] }

VARIABLES
  redis,          \* this.redis is non-null (Redis mode) or null (memory fallback)
  redisData,      \* Redis key live_sanctuary:<s>: <<>> (no key) or <<value>>
  sessionStates,  \* global.sessionStates[s]: reference to a heap object, or NoRef
  objs,           \* heap of session-state objects (index = reference)
  arrs,           \* heap of participants arrays (index = reference)
  calls,          \* updateParticipant / removeParticipant invocations
  connected,      \* socket of participant p is connected
  socketSession,  \* the session whose rooms the socket of p has joined
  voiceStreamActive, \* socket.voiceStreamActive
  activeSpeakers, \* per session: the session manager's active-speaker count
  handlers,       \* socket event handler invocations
  emitted,        \* everything emitted through io / socket, in order
  now,            \* Date.now()
  analyses,       \* analyzeContent invocations
  moderationLogs, \* global.moderationLogs (memory fallback)
  modKeys,        \* Redis keys moderation:<s>:<ms>, as {[key, data]}
  modList,        \* Redis lists moderation_list:<s>
  execs,          \* executeModerationAction invocations
  emergencyAlerts, \* global.emergencyAlerts (memory fallback)
  emKeys,         \* Redis keys emergency:<s>:<ms>, as {[key, data]}
  emList,         \* Redis lists emergency_list:<s>
  ioEmits,        \* what executeModerationAction emitted through io, in order
  backend,        \* the Redis server: "up" or "down"
  initPc,         \* position of RedisSessionManager.init
  storeCalls,     \* setSessionState / getSessionState / healthCheck invocations
  expired,        \* the writes whose retention period has elapsed
  schedDb,        \* the stored ScheduledLiveSanctuary document
  liveDb,         \* the stored LiveSanctuarySession documents, in save order
  reqs,           \* HTTP requests on the scheduled session and their position
  socketListeners, \* client socket: the listeners of each event, in order
  eventListenersRef, \* the hook's eventListenersRef map: event -> handler
  cleanups        \* the cleanup functions onEvent returned, in call order

rosterVars == <<redis, redisData, sessionStates, objs, arrs, calls>>

handlerVars ==
  <<connected, socketSession, voiceStreamActive, activeSpeakers, handlers,
    emitted>>

escVars == <<execs, emergencyAlerts, emKeys, emList, ioEmits>>

storeVars == <<backend, initPc, storeCalls, expired>>

schedVars == <<schedDb, liveDb, reqs>>

hookVars == <<socketListeners, eventListenersRef, cleanups>>

extVars == <<schedVars, hookVars>>

\* The variables of the session manager, the moderation service and the
\* socket handlers.
coreVars ==
  <<redis, redisData, sessionStates, objs, arrs, calls, connected,
    socketSession, voiceStreamActive, activeSpeakers, handlers, emitted,
    now, analyses, moderationLogs, modKeys, modList, execs, emergencyAlerts,
    emKeys, emList, ioEmits, backend, initPc, storeCalls, expired>>

logVars ==
  <<now, analyses, moderationLogs, modKeys, modList, execs, emergencyAlerts,
    emKeys, emList, ioEmits>>

vars ==
  <<redis, redisData, sessionStates, objs, arrs, calls, connected,
    socketSession, voiceStreamActive, activeSpeakers, handlers, emitted,
    now, analyses, moderationLogs, modKeys, modList, execs, emergencyAlerts,
    emKeys, emList, ioEmits, backend, initPc, storeCalls, expired,
    schedDb, liveDb, reqs, socketListeners, eventListenersRef, cleanups>>

\* ---------------------------------------------------------------- helpers
\* Array.prototype.findIndex(p => p.id === participantId); 0 stands for -1.
FindIndex(seq, pid) ==
  IF \E i \in 1..Len(seq) : seq[i].id = pid
    THEN CHOOSE i \in 1..Len(seq) :
           seq[i].id = pid /\ \A j \in 1..(i - 1) : seq[j].id # pid
    ELSE 0

\* Array.prototype.filter(p => p.id !== participantId)
RECURSIVE FilterOut(_, _)
FilterOut(seq, pid) ==
  IF seq = <<>> THEN <<>>
  ELSE IF Head(seq).id = pid THEN FilterOut(Tail(seq), pid)
  ELSE <<Head(seq)>> \o FilterOut(Tail(seq), pid)

\* { ...entry, ...participantData }: later properties win, id included.
MergeEntry(entry, data) ==
  [id |-> IF data.id # NoId THEN data.id ELSE entry.id, v |-> data.v]

\* { id: participantId, ...participantData }
NewEntry(pid, data) == MergeEntry([id |-> pid, v |-> "a"], data)

\* sessionState.participants || []
ArrOf(o, as) == IF o.participants = NoRef THEN <<>> ELSE as[o.participants]

\* A heap object of a session snapshot, read as a value.
ValueOf(o, as) ==
  [ hasParticipants |-> o.participants # NoRef,
    participants |-> ArrOf(o, as),
    currentParticipants |-> o.currentParticipants,
    timestamp |-> o.timestamp,
    lastUpdated |-> o.lastUpdated ]

\* JSON.stringify({...state, timestamp, lastUpdated}) of setSessionState in
\* Redis mode: a deep copy by value, with both stamps set.
Serialize(o, as) ==
  ValueOf([o EXCEPT !.timestamp = TRUE, !.lastUpdated = TRUE], as)

\* The stored snapshot of session s as a value, <<>> when there is none.
Stored(s) ==
  IF redis THEN redisData[s]
  ELSE IF sessionStates[s] = NoRef THEN <<>>
  ELSE <<ValueOf(objs[sessionStates[s]], arrs)>>

\* ------------------------------------------------------- getSessionState
\* Redis mode: redis.get may throw (fail), the catch returns null; otherwise
\* JSON.parse builds a fresh object and a fresh array. Memory mode: the
\* stored object itself is returned (no copy).
GetHit(s, fail) == redis /\ ~fail /\ redisData[s] # <<>>

GetArrs(s, fail) ==
  IF GetHit(s, fail) /\ redisData[s][1].hasParticipants
    THEN Append(arrs, redisData[s][1].participants)
    ELSE arrs

GetObjs(s, fail) ==
  IF GetHit(s, fail)
    THEN Append(objs,
           [ participants |-> IF redisData[s][1].hasParticipants
                                THEN Len(arrs) + 1 ELSE NoRef,
             currentParticipants |-> redisData[s][1].currentParticipants,
             timestamp |-> redisData[s][1].timestamp,
             lastUpdated |-> redisData[s][1].lastUpdated ])
    ELSE objs

GetSessionState(s, fail) ==
  IF ~redis THEN sessionStates[s]
  ELSE IF GetHit(s, fail) THEN Len(objs) + 1
  ELSE NoRef

Fails == IF redis THEN BOOLEAN ELSE {FALSE}

\* ------------------------------------------------------ garbage collection
\* An object no stored session and no unfinished call refers to, and an array
\* no such object refers to, can no longer be read: its slot is cleared.
FreedObj ==
  [participants |-> NoRef, currentParticipants |-> NoCount,
   timestamp |-> FALSE, lastUpdated |-> FALSE]

LiveObjs(ss, cs) ==
  {ss[s] : s \in Sessions}
    \cup {cs[c].sessionState : c \in {k \in 1..Len(cs) : cs[k].pc = "got"}}

CollectObjs(os, ss, cs) ==
  [r \in 1..Len(os) |-> IF r \in LiveObjs(ss, cs) THEN os[r] ELSE FreedObj]

CollectArrs(os, as, ss, cs) ==
  [a \in 1..Len(as) |->
     IF \E r \in LiveObjs(ss, cs) \ {NoRef} : os[r].participants = a
       THEN as[a] ELSE <<>>]

\* A finished call keeps which operation it was and what it returned.
Finished(call, result) ==
  [call EXCEPT !.pc = "done", !.result = result, !.sessionState = NoRef,
               !.data = [id |-> call.data.id, v |-> "a"]]

\* The first half of updateParticipant / removeParticipant: the call and its
\* `await this.getSessionState(sessionId)`; `if (!sessionState) return false`.
BeginCall(op, s, p, d, fail) ==
  /\ Len(calls) < MaxCalls
  /\ objs' = GetObjs(s, fail)
  /\ arrs' = GetArrs(s, fail)
  /\ calls' = Append(calls,
       [ op |-> op, sessionId |-> s, participantId |-> p,
         data |-> IF GetSessionState(s, fail) = NoRef
                    THEN [id |-> NoId, v |-> "a"] ELSE d,
         sessionState |-> GetSessionState(s, fail),
         getFailed |-> redis /\ fail,
         pc |-> IF GetSessionState(s, fail) = NoRef THEN "done" ELSE "got",
         result |-> IF GetSessionState(s, fail) = NoRef THEN "false"
                    ELSE "pending" ])
  /\ UNCHANGED <<extVars, storeVars, redis, redisData, sessionStates, handlerVars, logVars>>

updateParticipant_get(s, p, d, fail) == BeginCall("update", s, p, d, fail)

removeParticipant_get(s, p, fail) ==
  BeginCall("remove", s, p, [id |-> NoId, v |-> "a"], fail)

\* ------------------------------------------------------- setSessionState
\* Memory mode: global.sessionStates[s] = {...state, timestamp} (a shallow
\* copy: the participants array is shared), returns true. Redis mode: setex
\* of the serialized state, or the catch returns false when setex throws.
SetObjs(ref, os, fail) ==
  IF redis THEN os ELSE Append(os, [os[ref] EXCEPT !.timestamp = TRUE])

SetRedisData(s, ref, os, as, fail) ==
  IF redis /\ ~fail
    THEN [redisData EXCEPT ![s] = <<Serialize(os[ref], as)>>]
    ELSE redisData

SetSessionStates(s, ref, os, fail) ==
  IF redis THEN sessionStates
  ELSE [sessionStates EXCEPT ![s] = Len(os) + 1]

SetResult(fail) == IF redis /\ fail THEN "false" ELSE "true"

\* ------------------------------------------------------ updateParticipant
\* The array the update works on: sessionState.participants, or a new [].
UpdArrRef(ref) ==
  IF objs[ref].participants = NoRef THEN Len(arrs) + 1
  ELSE objs[ref].participants

UpdContent(ref, p, d) ==
  LET old == ArrOf(objs[ref], arrs)
      idx == FindIndex(old, p)
  IN IF idx > 0 THEN [old EXCEPT ![idx] = MergeEntry(old[idx], d)]
     ELSE Append(old, NewEntry(p, d))

UpdArrs(ref, p, d) ==
  IF objs[ref].participants = NoRef THEN Append(arrs, UpdContent(ref, p, d))
  ELSE [arrs EXCEPT ![objs[ref].participants] = UpdContent(ref, p, d)]

\* sessionState.currentParticipants = participants.length
CountOf(content) == Len(content)

\* Mutant of UpdObjs: the count is incremented on every join instead of being
\* recomputed from the roster.
UpdObjsIncrement(ref, p, d) ==
  [objs EXCEPT ![ref].participants = UpdArrRef(ref),
               ![ref].currentParticipants =
                 IF @ = NoCount THEN 1 ELSE @ + 1]

UpdObjs(ref, p, d) ==
  [objs EXCEPT ![ref].participants = UpdArrRef(ref),
               ![ref].currentParticipants = CountOf(UpdContent(ref, p, d))]

updateParticipant_set(c, fail) ==
  /\ c \in 1..Len(calls)
  /\ calls[c].pc = "got" /\ calls[c].op = "update"
  /\ LET ref == calls[c].sessionState
         s == calls[c].sessionId
         os == UpdObjs(ref, calls[c].participantId, calls[c].data)
         as == UpdArrs(ref, calls[c].participantId, calls[c].data)
     IN /\ redisData' = SetRedisData(s, ref, os, as, fail)
        /\ sessionStates' = SetSessionStates(s, ref, os, fail)
        /\ calls' = [calls EXCEPT ![c] = Finished(calls[c], SetResult(fail))]
        /\ objs' = CollectObjs(SetObjs(ref, os, fail), sessionStates', calls')
        /\ arrs' = CollectArrs(SetObjs(ref, os, fail), as, sessionStates', calls')
  /\ UNCHANGED <<extVars, storeVars, redis, handlerVars, logVars>>

\* ------------------------------------------------------ removeParticipant
RemContent(ref, p) == FilterOut(ArrOf(objs[ref], arrs), p)

RemObjs(ref, p) ==
  [objs EXCEPT ![ref].participants = Len(arrs) + 1,
               ![ref].currentParticipants = CountOf(RemContent(ref, p))]

removeParticipant_set(c, fail) ==
  /\ c \in 1..Len(calls)
  /\ calls[c].pc = "got" /\ calls[c].op = "remove"
  /\ LET ref == calls[c].sessionState
         s == calls[c].sessionId
         os == RemObjs(ref, calls[c].participantId)
         as == Append(arrs, RemContent(ref, calls[c].participantId))
     IN /\ redisData' = SetRedisData(s, ref, os, as, fail)
        /\ sessionStates' = SetSessionStates(s, ref, os, fail)
        /\ calls' = [calls EXCEPT ![c] = Finished(calls[c], SetResult(fail))]
        /\ objs' = CollectObjs(SetObjs(ref, os, fail), sessionStates', calls')
        /\ arrs' = CollectArrs(SetObjs(ref, os, fail), as, sessionStates', calls')
  /\ UNCHANGED <<extVars, storeVars, redis, handlerVars, logVars>>

\* ------------------------------------------------------------------- Init
\* A session is absent, stored without a participants property ("bare"), or
\* stored with an empty roster; the snapshot was written by setSessionState.
SessionKinds == {"absent", "bare", "empty"}

SessIdx(s) == IF s = "A" THEN 1 ELSE 2

InitValue(kind) ==
  [ hasParticipants |-> kind = "empty",
    participants |-> <<>>,
    currentParticipants |-> IF kind = "empty" THEN 0 ELSE NoCount,
    timestamp |-> TRUE,
    lastUpdated |-> TRUE ]

InitObj(kind, s) ==
  [ participants |-> IF kind = "empty" THEN SessIdx(s) ELSE NoRef,
    currentParticipants |-> IF kind = "empty" THEN 0 ELSE NoCount,
    timestamp |-> TRUE,
    lastUpdated |-> FALSE ]

\* Nothing has been analysed or logged.
IdleLogs ==
  /\ now = 0
  /\ analyses = <<>>
  /\ moderationLogs = <<>>
  /\ modKeys = {}
  /\ modList = [s \in Sessions |-> <<>>]
  /\ execs = <<>>
  /\ emergencyAlerts = <<>>
  /\ emKeys = {}
  /\ emList = [s \in Sessions |-> <<>>]
  /\ ioEmits = <<>>

\* The users of the scheduling routes; u1 is the host.
Users == {"u1", "u2", "u3"}

\* registrationDeadline is not set.
NoDeadline == 0 - 1

\* A ScheduledLiveSanctuary document as created: status 'scheduled',
\* nobody registered, scheduledDateTime at time 1.
NewDoc(maxParticipants, deadline) ==
  [ status |-> "scheduled", registeredParticipants |-> <<>>,
    maxParticipants |-> maxParticipants, registrationDeadline |-> deadline,
    liveSessionId |-> "none", hostId |-> "u1", accessMode |-> "public",
    invitationCode |-> "code", registrationRequired |-> FALSE,
    scheduledDateTime |-> 1, earlyJoinBuffer |-> 0 ]

\* No request on the scheduled session has been made.
IdleSchedule ==
  /\ schedDb = NewDoc(MaxParticipants, NoDeadline)
  /\ liveDb = <<>>
  /\ reqs = <<>>

\* The client hook has registered no handler.
IdleHook ==
  /\ socketListeners = [ev \in Events |-> <<>>]
  /\ eventListenersRef = [ev \in Events |-> NoHandler]
  /\ cleanups = <<>>

\* init has finished, the Redis server is reachable and the store has not
\* been called.
IdleStore ==
  /\ backend = "up"
  /\ initPc = "done"
  /\ storeCalls = <<>>
  /\ expired = {}

\* No socket is connected and no handler has run.
IdleHandlers ==
  /\ connected = [p \in Pids |-> FALSE]
  /\ socketSession = [p \in Pids |-> "A"]
  /\ voiceStreamActive = [p \in Pids |-> FALSE]
  /\ activeSpeakers = [s \in Sessions |-> 0]
  /\ handlers = <<>>
  /\ emitted = <<>>

InitRoster ==
  /\ IdleHandlers
  /\ IdleLogs
  /\ IdleSchedule
  /\ IdleHook
  /\ IdleStore
  /\ redis \in BOOLEAN
  /\ calls = <<>>
  /\ \E kind \in [Sessions -> SessionKinds] :
       IF redis
         THEN /\ redisData = [s \in Sessions |->
                   IF kind[s] = "absent" THEN <<>> ELSE <<InitValue(kind[s])>>]
              /\ sessionStates = [s \in Sessions |-> NoRef]
              /\ objs = <<>>
              /\ arrs = <<>>
         ELSE /\ redisData = [s \in Sessions |-> <<>>]
              /\ sessionStates = [s \in Sessions |->
                   IF kind[s] = "absent" THEN NoRef ELSE SessIdx(s)]
              /\ objs = <<InitObj(kind["A"], "A"), InitObj(kind["moderators_A"], "moderators_A")>>
              /\ arrs = << <<>>, <<>> >>

NextRoster ==
  \/ \E s \in Sessions, p \in Pids, d \in DataSet, fail \in Fails :
       updateParticipant_get(s, p, d, fail)
  \/ \E s \in Sessions, p \in Pids, fail \in Fails :
       removeParticipant_get(s, p, fail)
  \/ \E c \in 1..MaxCalls, fail \in Fails : updateParticipant_set(c, fail)
  \/ \E c \in 1..MaxCalls, fail \in Fails : removeParticipant_set(c, fail)

SpecRoster == InitRoster /\ [][NextRoster]_vars

\* ---------------------------------------------------------- roster claims
StoredIds(s) ==
  IF Stored(s) = <<>> THEN {}
  ELSE {Stored(s)[1].participants[i].id :
          i \in 1..Len(Stored(s)[1].participants)}

DoneOk(c) == calls[c].pc = "done" /\ calls[c].result = "true"

\* C1: every stored session that an updateParticipant or removeParticipant
\* has written (and every one stored with a roster) has currentParticipants
\* equal to the length of its participants list, after each operation.
C1_CountEqualsRosterLength ==
  /\ \A s \in Sessions :
       Stored(s) # <<>> =>
         LET v == Stored(s)[1]
         IN (v.hasParticipants \/ v.currentParticipants # NoCount) =>
              /\ v.hasParticipants
              /\ v.currentParticipants = Len(v.participants)
  /\ \A c \in 1..Len(calls) :
       DoneOk(c) =>
         /\ Stored(calls[c].sessionId) # <<>>
         /\ Stored(calls[c].sessionId)[1].hasParticipants

\* A join and a leave have both been applied to a session that now holds one
\* participant.
C1_Witness ==
  \E s \in Sessions :
    /\ Stored(s) # <<>>
    /\ Stored(s)[1].currentParticipants = 1
    /\ \E c1, c2 \in 1..Len(calls) :
         /\ DoneOk(c1) /\ calls[c1].op = "update" /\ calls[c1].sessionId = s
         /\ DoneOk(c2) /\ calls[c2].op = "remove" /\ calls[c2].sessionId = s

\* C2: no participant id occurs twice in the participants list of a stored
\* session, after any sequence of joins, updates and leaves.
C2_NoDuplicateIds ==
  \A s \in Sessions :
    Stored(s) # <<>> =>
      \A i, j \in 1..Len(Stored(s)[1].participants) :
        Stored(s)[1].participants[i].id = Stored(s)[1].participants[j].id
          => i = j

\* C3: once all calls have returned, the stored roster of a session reflects
\* every successful call on it, when these calls are for pairwise different
\* participants (so that their order does not matter): a joined participant
\* is present, a removed one is absent.
C3_NoLostUpdate ==
  (\A c \in 1..Len(calls) : calls[c].pc = "done") =>
    \A s \in Sessions :
      LET mine == {c \in 1..Len(calls) : DoneOk(c) /\ calls[c].sessionId = s}
      IN (/\ \A c \in mine : calls[c].data.id = NoId
          /\ \A c1, c2 \in mine :
               c1 # c2 => calls[c1].participantId # calls[c2].participantId)
         => \A c \in mine :
              IF calls[c].op = "update"
                THEN calls[c].participantId \in StoredIds(s)
                ELSE calls[c].participantId \notin StoredIds(s)

\* ================================================================ handlers
\* Channel names are built by string concatenation.
Room(s) == <<"sanctuary", "_">> \o Tokens(s)

ModRoom(s) == <<"sanctuary", "_", "moderators", "_">> \o Tokens(s)

AudioRoom(s) == <<"audio", "_", "room", "_">> \o Tokens(s)

\* socket.emit / targetSocket.emit: to that one socket
SocketOf(p) == <<"socket", p>>

\* One emit: the event, the channel, the participant the payload names, the
\* handler invocation it belongs to, and whether that participant's socket
\* was still connected when it was emitted.
Emit(ev, to, p, h) ==
  [ev |-> ev, to |-> to, pid |-> p, h |-> h, senderConnected |-> connected[p]]

\* The value of `await this.moderationService.moderateContent(...)` as the
\* handler reads it: shouldBlock, shouldFlag, severity, detectedPatterns.
ModerationResults ==
  { [shouldBlock |-> b, shouldFlag |-> f, severity |-> "low", selfHarm |-> FALSE] :
      b \in BOOLEAN, f \in BOOLEAN }
  \cup
  { [shouldBlock |-> b, shouldFlag |-> f, severity |-> "critical", selfHarm |-> sh] :
      b \in BOOLEAN, f \in BOOLEAN, sh \in BOOLEAN }

NoResult ==
  [shouldBlock |-> FALSE, shouldFlag |-> FALSE, severity |-> "none",
   selfHarm |-> FALSE]

NewHandler(kind, p, s, pc, alertType) ==
  [ kind |-> kind, pid |-> p, sessionId |-> s, pc |-> pc,
    moderated |-> FALSE, result |-> NoResult,
    alertType |-> alertType,
    \* history: the branch a sanctuary_message handler took
    path |-> "none",
    \* history: the handler's position when its socket disconnected
    disconnectedAt |-> "no" ]

\* `const moderationResult = await ...moderateContent(...)` resolved with r.
ModerateContent(hr, r) ==
  [hr EXCEPT !.moderated = TRUE, !.result = r, !.pc = "storing"]

\* socket.on('sanctuary_message'): the handler starts and awaits
\* getParticipantHistory and moderateContent.
sanctuary_message(p, s) ==
  /\ connected[p]
  /\ Len(handlers) < MaxEvents
  /\ handlers' = Append(handlers, NewHandler("msg", p, s, "moderating", "none"))
  /\ UNCHANGED <<extVars, storeVars, rosterVars, logVars, connected, socketSession, voiceStreamActive,
                 activeSpeakers, emitted>>

\* moderateContent resolves; the handler builds the message and awaits
\* sessionManager.addMessage.
msg_moderated(h, r) ==
  /\ h \in 1..Len(handlers)
  /\ handlers[h].kind = "msg" /\ handlers[h].pc = "moderating"
  /\ handlers' = [handlers EXCEPT ![h] = ModerateContent(handlers[h], r)]
  /\ UNCHANGED <<extVars, storeVars, rosterVars, logVars, connected, socketSession, voiceStreamActive,
                 activeSpeakers, emitted>>

\* catch (error): the message is sent to the room with requiresManualReview.
\* Reached when getParticipantHistory / moderateContent rejects
\* (pc = "moderating") or when addMessage rejects (pc = "storing").
msg_error(h) ==
  /\ h \in 1..Len(handlers)
  /\ handlers[h].kind = "msg" /\ handlers[h].pc \in {"moderating", "storing"}
  /\ emitted' = Append(emitted,
       Emit("sanctuary_new_message", Room(handlers[h].sessionId),
            handlers[h].pid, h))
  /\ handlers' = [handlers EXCEPT ![h].pc = "done", ![h].path = "error"]
  /\ UNCHANGED <<extVars, storeVars, rosterVars, logVars, connected, socketSession, voiceStreamActive,
                 activeSpeakers>>

\* socket.on('sanctuary_message') when the client sent the event without a
\* payload (data is undefined): the destructuring of data throws, the catch
\* block reads data.participantAlias and throws again, and the handler ends
\* (a rejected promise) before the emit of its last line.
sanctuary_message_noPayload(p) ==
  /\ connected[p]
  /\ Len(handlers) < MaxEvents
  /\ handlers' = Append(handlers,
       [NewHandler("msg", p, NoId, "done", "none") EXCEPT !.path = "rejected"])
  /\ UNCHANGED <<extVars, storeVars, rosterVars, logVars, connected, socketSession, voiceStreamActive,
                 activeSpeakers, emitted>>

\* handleCriticalAlert up to its first await: the critical_alert emit.
CriticalAlertEmits(h) ==
  <<Emit("critical_alert", ModRoom(handlers[h].sessionId), handlers[h].pid, h)>>

\* handleCriticalAlert after the emit: triggerCrisisIntervention when the
\* detected patterns include self_harm / suicide_ideation; it looks the
\* participant's socket up among the connected sockets.
CriticalAlertPc(h) ==
  IF handlers[h].result.selfHarm
    THEN IF connected[handlers[h].pid] THEN "crisisTarget" ELSE "crisisMods"
    ELSE "done"

\* The block / flag / normal branches of the sanctuary_message handler.
BranchEmits(h) ==
  LET r == handlers[h].result
      s == handlers[h].sessionId
      p == handlers[h].pid
  IN IF r.shouldBlock
       THEN << Emit("message_blocked", SocketOf(p), p, h),
               Emit("content_blocked", ModRoom(s), p, h) >>
     ELSE IF r.shouldFlag
       THEN << Emit("sanctuary_new_message", Room(s), p, h),
               Emit("content_flagged", ModRoom(s), p, h) >>
            \o (IF r.severity = "critical" THEN CriticalAlertEmits(h) ELSE <<>>)
     ELSE << Emit("sanctuary_new_message", Room(s), p, h) >>

BranchOf(r) ==
  IF r.shouldBlock THEN "block" ELSE IF r.shouldFlag THEN "flag" ELSE "normal"

BranchPc(h) ==
  LET r == handlers[h].result
  IN IF ~r.shouldBlock /\ r.shouldFlag /\ r.severity = "critical"
       THEN CriticalAlertPc(h)
       ELSE "done"

\* addMessage resolves: the handler takes its branch.
msg_stored(h) ==
  /\ h \in 1..Len(handlers)
  /\ handlers[h].kind = "msg" /\ handlers[h].pc = "storing"
  /\ emitted' = emitted \o BranchEmits(h)
  /\ handlers' = [handlers EXCEPT ![h].pc = BranchPc(h),
                                  ![h].path = BranchOf(handlers[h].result)]
  /\ UNCHANGED <<extVars, storeVars, rosterVars, logVars, connected, socketSession, voiceStreamActive,
                 activeSpeakers>>

\* What follows triggerCrisisIntervention in its caller: the emergency_alert
\* handler goes on to its room-wide broadcast; handleCriticalAlert goes on to
\* logCriticalAlert.
AfterCrisisEmits(h) ==
  IF handlers[h].kind = "alert"
    THEN <<Emit("emergency_alert", Room(handlers[h].sessionId),
                handlers[h].pid, h)>>
    ELSE <<>>

\* triggerCrisisIntervention, target socket found: getCrisisResources
\* resolves (ok) and crisis_intervention goes to the participant, or it
\* rejects and the catch ends the intervention.
crisis_target(h, ok) ==
  /\ h \in 1..Len(handlers)
  /\ handlers[h].pc = "crisisTarget"
  /\ emitted' =
       IF ok THEN Append(emitted,
                    Emit("crisis_intervention", SocketOf(handlers[h].pid),
                         handlers[h].pid, h))
       ELSE emitted \o AfterCrisisEmits(h)
  /\ handlers' = [handlers EXCEPT ![h].pc = IF ok THEN "crisisMods" ELSE "done"]
  /\ UNCHANGED <<extVars, storeVars, rosterVars, logVars, connected, socketSession, voiceStreamActive,
                 activeSpeakers>>

\* triggerCrisisIntervention: the moderators' crisis_intervention_triggered.
crisis_mods(h, ok) ==
  /\ h \in 1..Len(handlers)
  /\ handlers[h].pc = "crisisMods"
  /\ emitted' =
       (IF ok THEN Append(emitted,
                     Emit("crisis_intervention_triggered",
                          ModRoom(handlers[h].sessionId), handlers[h].pid, h))
        ELSE emitted) \o AfterCrisisEmits(h)
  /\ handlers' = [handlers EXCEPT ![h].pc = "done"]
  /\ UNCHANGED <<extVars, storeVars, rosterVars, logVars, connected, socketSession, voiceStreamActive,
                 activeSpeakers>>

\* ---------------------------------------------------------- emergency_alert
AlertTypes == {"mental_health_crisis", "harassment", "spam_disruption", "other"}

\* The moderators' event of handleMentalHealthCrisis, handleHarassmentAlert,
\* handleSpamAlert and handleGenericAlert (the switch's default).
AlertEvent(alertType) ==
  CASE alertType = "mental_health_crisis" -> "mental_health_crisis"
    [] alertType = "harassment" -> "harassment_alert"
    [] alertType = "spam_disruption" -> "spam_alert"
    [] OTHER -> "generic_alert"

\* socket.on('emergency_alert'): the handler awaits logEmergencyAlert.
emergency_alert(p, s, alertType) ==
  /\ connected[p]
  /\ Len(handlers) < MaxEvents
  /\ handlers' = Append(handlers, NewHandler("alert", p, s, "logging", alertType))
  /\ UNCHANGED <<extVars, storeVars, rosterVars, logVars, connected, socketSession, voiceStreamActive,
                 activeSpeakers, emitted>>

\* logEmergencyAlert resolved (ok): the switch notifies the moderators; a
\* mental_health_crisis goes through triggerCrisisIntervention first, the
\* others reach the room-wide emergency_alert at once. When it rejected, the
\* catch only logs to the console.
alert_logged(h, ok) ==
  /\ h \in 1..Len(handlers)
  /\ handlers[h].kind = "alert" /\ handlers[h].pc = "logging"
  /\ LET p == handlers[h].pid
         s == handlers[h].sessionId
         ty == handlers[h].alertType
     IN IF ~ok
          THEN /\ emitted' = emitted
               /\ handlers' = [handlers EXCEPT ![h].pc = "done", ![h].path = "error"]
        ELSE IF ty = "mental_health_crisis"
          THEN /\ emitted' = Append(emitted, Emit(AlertEvent(ty), ModRoom(s), p, h))
               /\ handlers' = [handlers EXCEPT
                    ![h].pc = IF connected[p] THEN "crisisTarget" ELSE "crisisMods",
                    ![h].path = "alert"]
        ELSE /\ emitted' = emitted
                  \o << Emit(AlertEvent(ty), ModRoom(s), p, h),
                        Emit("emergency_alert", Room(s), p, h) >>
             /\ handlers' = [handlers EXCEPT ![h].pc = "done", ![h].path = "alert"]
  /\ UNCHANGED <<extVars, storeVars, rosterVars, logVars, connected, socketSession, voiceStreamActive,
                 activeSpeakers>>

\* ------------------------------------------------------------ VoiceHandlers
\* socket.on('voice_stream_start'): awaits canParticipantSpeak.
voice_stream_start(p, s) ==
  /\ connected[p]
  /\ Len(handlers) < MaxEvents
  /\ handlers' = Append(handlers, NewHandler("vstart", p, s, "checking", "none"))
  /\ UNCHANGED <<extVars, storeVars, rosterVars, logVars, connected, socketSession, voiceStreamActive,
                 activeSpeakers, emitted>>

\* sessionManager.incrementActiveSpeakers / decrementActiveSpeakers
IncrementActiveSpeakers(s) == [activeSpeakers EXCEPT ![s] = @ + 1]

DecrementActiveSpeakers(s) == [activeSpeakers EXCEPT ![s] = @ - 1]

\* canParticipantSpeak resolved: denied, or the stream is marked active, the
\* room is told and the speaker count incremented (incOk), or the catch
\* reports voice_stream_error (canParticipantSpeak or the increment rejects).
voice_stream_started(h, canSpeak, checkOk, incOk) ==
  /\ h \in 1..Len(handlers)
  /\ handlers[h].kind = "vstart" /\ handlers[h].pc = "checking"
  /\ LET p == handlers[h].pid
         s == handlers[h].sessionId
     IN IF ~checkOk
          THEN /\ emitted' = Append(emitted, Emit("voice_stream_error", SocketOf(p), p, h))
               /\ UNCHANGED <<voiceStreamActive, activeSpeakers>>
        ELSE IF ~canSpeak
          THEN /\ emitted' = Append(emitted, Emit("voice_stream_denied", SocketOf(p), p, h))
               /\ UNCHANGED <<voiceStreamActive, activeSpeakers>>
        ELSE /\ voiceStreamActive' = [voiceStreamActive EXCEPT ![p] = TRUE]
             /\ emitted' = emitted
                  \o <<Emit("participant_speaking_start", AudioRoom(s), p, h)>>
                  \o (IF incOk THEN <<>>
                      ELSE <<Emit("voice_stream_error", SocketOf(p), p, h)>>)
             /\ activeSpeakers' =
                  IF incOk THEN IncrementActiveSpeakers(s) ELSE activeSpeakers
  /\ handlers' = [handlers EXCEPT ![h].pc = "done"]
  /\ UNCHANGED <<extVars, storeVars, rosterVars, logVars, connected, socketSession>>

\* socket.on('voice_stream_end')
voice_stream_end(p, s, decOk) ==
  /\ connected[p]
  /\ Len(handlers) < MaxEvents
  /\ voiceStreamActive' = [voiceStreamActive EXCEPT ![p] = FALSE]
  /\ emitted' = Append(emitted,
       Emit("participant_speaking_end", AudioRoom(s), p, Len(handlers) + 1))
  /\ activeSpeakers' =
       IF decOk THEN DecrementActiveSpeakers(s) ELSE activeSpeakers
  /\ handlers' = Append(handlers, NewHandler("vend", p, s, "done", "none"))
  /\ UNCHANGED <<extVars, storeVars, rosterVars, logVars, connected, socketSession>>

\* The socket disconnects and handleDisconnect(socket, sessionId) runs:
\* participant_speaking_end and the decrement only when the voice stream is
\* active, then removeParticipantVoiceData. The stored roster is not touched.
handleDisconnect(p, decOk) ==
  /\ connected[p]
  /\ Len(handlers) < MaxEvents
  /\ connected' = [connected EXCEPT ![p] = FALSE]
  /\ emitted' =
       IF voiceStreamActive[p]
         THEN Append(emitted,
                [ev |-> "participant_speaking_end",
                 to |-> AudioRoom(socketSession[p]), pid |-> p,
                 h |-> Len(handlers) + 1, senderConnected |-> FALSE])
         ELSE emitted
  /\ activeSpeakers' =
       IF voiceStreamActive[p] /\ decOk
         THEN DecrementActiveSpeakers(socketSession[p])
         ELSE activeSpeakers
  /\ handlers' = Append(
       [h \in 1..Len(handlers) |->
          IF handlers[h].pid = p /\ handlers[h].disconnectedAt = "no"
            THEN [handlers[h] EXCEPT !.disconnectedAt = handlers[h].pc]
            ELSE handlers[h]],
       NewHandler("disconnect", p, socketSession[p], "done", "none"))
  /\ UNCHANGED <<extVars, storeVars, rosterVars, logVars, socketSession, voiceStreamActive>>

\* ------------------------------------------------------------------- Init
\* Every participant has joined a session: the socket is connected and in
\* the session's rooms, and the stored roster of the session lists the
\* participant. The store is in Redis mode.
RosterOf(s, ss) ==
  LET p1 == IF ss["p1"] = s THEN <<[id |-> "p1", v |-> "a"]>> ELSE <<>>
      p2 == IF ss["p2"] = s THEN <<[id |-> "p2", v |-> "a"]>> ELSE <<>>
  IN p1 \o p2

JoinedValue(s, ss) ==
  [ hasParticipants |-> TRUE,
    participants |-> RosterOf(s, ss),
    currentParticipants |-> Len(RosterOf(s, ss)),
    timestamp |-> TRUE,
    lastUpdated |-> TRUE ]

InitHandlers ==
  /\ IdleLogs
  /\ IdleSchedule
  /\ IdleHook
  /\ IdleStore
  /\ redis = TRUE
  /\ sessionStates = [s \in Sessions |-> NoRef]
  /\ objs = <<>>
  /\ arrs = <<>>
  /\ calls = <<>>
  /\ socketSession \in [Pids -> Sessions]
  /\ redisData = [s \in Sessions |-> <<JoinedValue(s, socketSession)>>]
  /\ connected = [p \in Pids |-> TRUE]
  /\ voiceStreamActive = [p \in Pids |-> FALSE]
  /\ activeSpeakers = [s \in Sessions |-> 0]
  /\ handlers = <<>>
  /\ emitted = <<>>

NextHandlers ==
  \/ \E p \in Pids, s \in Sessions : sanctuary_message(p, s)
  \/ \E p \in Pids : sanctuary_message_noPayload(p)
  \/ \E h \in 1..MaxEvents, r \in ModerationResults : msg_moderated(h, r)
  \/ \E h \in 1..MaxEvents : msg_error(h)
  \/ \E h \in 1..MaxEvents : msg_stored(h)
  \/ \E h \in 1..MaxEvents, ok \in BOOLEAN : crisis_target(h, ok)
  \/ \E h \in 1..MaxEvents, ok \in BOOLEAN : crisis_mods(h, ok)
  \/ \E p \in Pids, s \in Sessions : voice_stream_start(p, s)
  \/ \E h \in 1..MaxEvents, canSpeak, checkOk, incOk \in BOOLEAN :
       voice_stream_started(h, canSpeak, checkOk, incOk)
  \/ \E p \in Pids, s \in Sessions, decOk \in BOOLEAN :
       voice_stream_end(p, s, decOk)
  \/ \E p \in Pids, decOk \in BOOLEAN : handleDisconnect(p, decOk)

SpecHandlers == InitHandlers /\ [][NextHandlers]_vars

NextAlert ==
  \/ \E p \in Pids, s \in Sessions, ty \in AlertTypes : emergency_alert(p, s, ty)
  \/ \E h \in 1..MaxEvents, ok \in BOOLEAN : alert_logged(h, ok)
  \/ \E h \in 1..MaxEvents, ok \in BOOLEAN : crisis_target(h, ok)
  \/ \E h \in 1..MaxEvents, ok \in BOOLEAN : crisis_mods(h, ok)
  \/ \E p \in Pids, decOk \in BOOLEAN : handleDisconnect(p, decOk)

SpecAlert == InitHandlers /\ [][NextAlert]_vars

\* --------------------------------------------------------- handler claims
EmittedBy(h) == {i \in 1..Len(emitted) : emitted[i].h = h}

\* The sanctuary_message handler has taken a branch or its error path.
Handled(h) ==
  handlers[h].kind = "msg" /\ handlers[h].pc \notin {"moderating", "storing"}

\* C4: for every sanctuary_message whose moderation result has severity
\* critical, whichever of the block, flag and normal branches the handler
\* took, a critical_alert has been emitted to the moderators of its session.
C4_CriticalAlwaysAlerted ==
  \A h \in 1..Len(handlers) :
    (handlers[h].path \in {"block", "flag", "normal"}
       /\ handlers[h].result.severity = "critical")
      => \E i \in EmittedBy(h) :
           /\ emitted[i].ev = "critical_alert"
           /\ emitted[i].to = ModRoom(handlers[h].sessionId)

\* C5: a handled sanctuary_message whose moderation result said shouldBlock
\* has produced no sanctuary_new_message, and its sender has been sent
\* message_blocked.
C5_BlockedNeverDelivered ==
  \A h \in 1..Len(handlers) :
    (Handled(h) /\ handlers[h].moderated /\ handlers[h].result.shouldBlock)
      => /\ \A i \in EmittedBy(h) : emitted[i].ev # "sanctuary_new_message"
         /\ \E i \in EmittedBy(h) :
              /\ emitted[i].ev = "message_blocked"
              /\ emitted[i].to = SocketOf(handlers[h].pid)

\* C9: when the sender disconnected while the moderation analysis of the
\* message was in flight, nothing that names the sender (sanctuary_new_message,
\* content_flagged) is sent to the session's rooms for that message after the
\* disconnect.
C9_NoBroadcastAfterDisconnect ==
  \A h \in 1..Len(handlers) :
    (handlers[h].kind = "msg" /\ handlers[h].disconnectedAt = "moderating")
      => \A i \in EmittedBy(h) :
           (emitted[i].ev \in {"sanctuary_new_message", "content_flagged"}
              /\ emitted[i].pid = handlers[h].pid)
             => emitted[i].senderConnected

\* C10: once handleDisconnect has run for a participant, the participant is
\* no longer in the stored roster of the session and a
\* participant_speaking_end naming the participant has been sent to the
\* session's audio room.
C10_DisconnectRemovesAndEndsSpeaking ==
  \A h \in 1..Len(handlers) :
    handlers[h].kind = "disconnect"
      => /\ handlers[h].pid \notin StoredIds(handlers[h].sessionId)
         /\ \E i \in EmittedBy(h) :
              /\ emitted[i].ev = "participant_speaking_end"
              /\ emitted[i].pid = handlers[h].pid
              /\ emitted[i].to = AudioRoom(handlers[h].sessionId)

\* C6: every emergency_alert event the handler has finished with has produced
\* the moderators' notification of its alert type and the room-wide
\* emergency_alert broadcast, also when logEmergencyAlert failed.
C6_NoAlertDropped ==
  \A h \in 1..Len(handlers) :
    (handlers[h].kind = "alert" /\ handlers[h].pc = "done")
      => /\ \E i \in EmittedBy(h) :
              /\ emitted[i].ev = AlertEvent(handlers[h].alertType)
              /\ emitted[i].to = ModRoom(handlers[h].sessionId)
         /\ \E i \in EmittedBy(h) :
              /\ emitted[i].ev = "emergency_alert"
              /\ emitted[i].to = Room(handlers[h].sessionId)

\* ====================================================== AIModerationService
\* Text is a sequence of characters.
UpperChars ==
  <<"A", "B", "C", "D", "E", "F", "G", "H", "I", "J", "K", "L", "M",
    "N", "O", "P", "Q", "R", "S", "T", "U", "V", "W", "X", "Y", "Z">>

LowerChars ==
  <<"a", "b", "c", "d", "e", "f", "g", "h", "i", "j", "k", "l", "m",
    "n", "o", "p", "q", "r", "s", "t", "u", "v", "w", "x", "y", "z">>

IsUpper(c) == \E i \in 1..Len(UpperChars) : UpperChars[i] = c

ToLowerChar(c) ==
  IF IsUpper(c)
    THEN LowerChars[CHOOSE i \in 1..Len(UpperChars) : UpperChars[i] = c]
    ELSE c

\* String.prototype.toLowerCase
ToLowerCase(str) == [i \in 1..Len(str) |-> ToLowerChar(str[i])]

\* String.prototype.includes
Includes(hay, needle) ==
  \E i \in 1..(Len(hay) - Len(needle) + 1) :
    SubSeq(hay, i, i + Len(needle) - 1) = needle

IsSpace(c) == c \in {" ", "\t", "\n"}

\* /(.)\1{10,}/ : a character followed by ten or more copies of itself
RepeatedChars(str) ==
  \E i \in 1..(Len(str) - 10) :
    str[i] # "\n" /\ \A j \in i..(i + 10) : str[j] = str[i]

\* /[A-Z]{20,}/
AllCaps(str) ==
  \E i \in 1..(Len(str) - 19) : \A j \in i..(i + 19) : IsUpper(str[j])

\* /https?:\/\/[^\s]+/gi : the test is always made from lastIndex 0, because
\* a failed test resets lastIndex and a successful one is followed by
\* content.match(pattern), which resets it too.
HasUrl(str) ==
  LET low == ToLowerCase(str)
      follows(prefix) ==
        \E i \in 1..(Len(low) - Len(prefix)) :
          /\ SubSeq(low, i, i + Len(prefix) - 1) = prefix
          /\ ~IsSpace(low[i + Len(prefix)])
  IN \/ follows(<<"h", "t", "t", "p", ":", "/", "/">>)
     \/ follows(<<"h", "t", "t", "p", "s", ":", "/", "/">>)

PatternTest(pattern, str) ==
  CASE pattern = "repeat" -> RepeatedChars(str)
    [] pattern = "caps" -> AllCaps(str)
    [] pattern = "url" -> HasUrl(str)

\* moderationRules.crisis_detection.keywords
CrisisKeywords ==
  << <<"s", "u", "i", "c", "i", "d", "e">>,
     <<"k", "i", "l", "l", " ", "m", "y", "s", "e", "l", "f">>,
     <<"e", "n", "d", " ", "i", "t", " ", "a", "l", "l">>,
     <<"n", "o", "t", " ", "w", "o", "r", "t", "h", " ", "l", "i", "v", "i", "n", "g">>,
     <<"h", "u", "r", "t", " ", "m", "y", "s", "e", "l", "f">>,
     <<"s", "e", "l", "f", " ", "h", "a", "r", "m">>,
     <<"c", "u", "t", "t", "i", "n", "g">>,
     <<"o", "v", "e", "r", "d", "o", "s", "e">>,
     <<"w", "a", "n", "t", " ", "t", "o", " ", "d", "i", "e">>,
     <<"b", "e", "t", "t", "e", "r", " ", "o", "f", "f", " ", "d", "e", "a", "d">>,
     <<"c", "a", "n", "'", "t", " ", "t", "a", "k", "e", " ", "i", "t", " ", "a", "n", "y", "m", "o", "r", "e">> >>

\* moderationRules.harassment.keywords
HarassmentKeywords ==
  << <<"h", "a", "t", "e">>,
     <<"k", "i", "l", "l", " ", "y", "o", "u">>,
     <<"t", "h", "r", "e", "a", "t">>,
     <<"v", "i", "o", "l", "e", "n", "c", "e">>,
     <<"a", "t", "t", "a", "c", "k">>,
     <<"r", "a", "c", "i", "s", "t">>,
     <<"s", "e", "x", "i", "s", "t">>,
     <<"h", "o", "m", "o", "p", "h", "o", "b", "i", "c">>,
     <<"t", "r", "a", "n", "s", "p", "h", "o", "b", "i", "c">> >>

\* moderationRules.inappropriate_content.keywords
InappropriateKeywords ==
  << <<"e", "x", "p", "l", "i", "c", "i", "t">>,
     <<"s", "e", "x", "u", "a", "l">>,
     <<"d", "r", "u", "g", " ", "d", "e", "a", "l", "i", "n", "g">>,
     <<"i", "l", "l", "e", "g", "a", "l">> >>

\* "I want to kill myself"
TextKillMyself == <<"I", " ", "w", "a", "n", "t", " ", "t", "o", " ", "k", "i", "l", "l", " ", "m", "y", "s", "e", "l", "f">>

\* "AAAAAAAAAAAAAAAAAAAA"
TextCapsSpam == <<"A", "A", "A", "A", "A", "A", "A", "A", "A", "A", "A", "A", "A", "A", "A", "A", "A", "A", "A", "A">>

\* "hello"
TextHello == <<"h", "e", "l", "l", "o">>

\* "hello there"
TextHelloThere == <<"h", "e", "l", "l", "o", " ", "t", "h", "e", "r", "e">>

\* "helloworld"
TextTenChars == <<"h", "e", "l", "l", "o", "w", "o", "r", "l", "d">>

\* "i hate you"
TextHateShort == <<"i", " ", "h", "a", "t", "e", " ", "y", "o", "u">>

\* "I hate that SUICIDE"
TextHateSuicide == <<"I", " ", "h", "a", "t", "e", " ", "t", "h", "a", "t", " ", "S", "U", "I", "C", "I", "D", "E">>

\* "explicit hate"
TextExplicitHate == <<"e", "x", "p", "l", "i", "c", "i", "t", " ", "h", "a", "t", "e">>

\* "see HTTP://x.y"
TextUrl == <<"s", "e", "e", " ", "H", "T", "T", "P", ":", "/", "/", "x", ".", "y">>

\* "zzzzzzzzzzz"
TextRepeat == <<"z", "z", "z", "z", "z", "z", "z", "z", "z", "z", "z">>

\* "suicide"
TextSuicide == <<"s", "u", "i", "c", "i", "d", "e">>

\* "suicide http://x"
TextSuicideUrl == <<"s", "u", "i", "c", "i", "d", "e", " ", "h", "t", "t", "p", ":", "/", "/", "x">>

\* "illegal"
TextIllegal == <<"i", "l", "l", "e", "g", "a", "l">>

Texts ==
  { TextKillMyself,
    TextIllegal,
    TextSuicide,
    TextSuicideUrl,
    TextCapsSpam,
    TextHello,
    TextHelloThere,
    TextTenChars,
    TextHateShort,
    TextHateSuicide,
    TextExplicitHate,
    TextUrl,
    TextRepeat }

\* Content handed to analyzeContent: a string, or a value that is no string
\* (undefined, null, a number), on which content.toLowerCase() throws.
NotAString == [isString |-> FALSE, chars |-> <<>>]

Contents == {[isString |-> TRUE, chars |-> x] : x \in Texts} \cup {NotAString}

\* this.moderationRules, in the order of Object.entries
ModerationRules ==
  << [ category |-> "crisis_detection", keywords |-> CrisisKeywords,
       patterns |-> <<>>, severity |-> "critical",
       action |-> "immediate_intervention" ],
     [ category |-> "harassment", keywords |-> HarassmentKeywords,
       patterns |-> <<>>, severity |-> "high", action |-> "warn_and_monitor" ],
     [ category |-> "spam", keywords |-> <<>>,
       patterns |-> <<"repeat", "caps", "url">>, severity |-> "medium",
       action |-> "auto_filter" ],
     [ category |-> "inappropriate_content", keywords |-> InappropriateKeywords,
       patterns |-> <<>>, severity |-> "medium", action |-> "content_filter" ] >>

\* The matchers of one rule in scan order: its keywords, then its patterns.
RuleMatchers(rule) ==
  [ i \in 1..Len(rule.keywords) |->
      [ category |-> rule.category, kind |-> "keyword",
        keyword |-> rule.keywords[i], pattern |-> "",
        severity |-> rule.severity, action |-> rule.action ] ]
  \o
  [ i \in 1..Len(rule.patterns) |->
      [ category |-> rule.category, kind |-> "pattern",
        keyword |-> <<>>, pattern |-> rule.patterns[i],
        severity |-> rule.severity, action |-> rule.action ] ]

MatcherList ==
  RuleMatchers(ModerationRules[1]) \o RuleMatchers(ModerationRules[2])
    \o RuleMatchers(ModerationRules[3]) \o RuleMatchers(ModerationRules[4])

\* lowerContent.includes(keyword.toLowerCase()) / pattern.test(content)
Matches(m, str) ==
  IF m.kind = "keyword"
    THEN Includes(ToLowerCase(str), ToLowerCase(m.keyword))
    ELSE PatternTest(m.pattern, str)

\* getSeverityLevel: levels[severity] || 0
getSeverityLevel(severity) ==
  CASE severity = "low" -> 1
    [] severity = "medium" -> 2
    [] severity = "high" -> 3
    [] severity = "critical" -> 4
    [] OTHER -> 0

\* Confidence is counted in tenths: 0.8 for a keyword, 0.7 for a pattern.
KeywordConfidence == 8

PatternConfidence == 7

\* Mutant of ApplyMatcher: every match takes over severity, action and
\* confidence, so that the last match wins.
ApplyMatcherLast(result, m) ==
  [result EXCEPT
     !.flags = Append(@, [type |-> m.category, kind |-> m.kind]),
     !.severity = m.severity,
     !.action = m.action,
     !.confidence = IF m.kind = "keyword" THEN KeywordConfidence
                    ELSE PatternConfidence,
     !.definitive = IF m.kind = "keyword" THEN m.severity = "critical" ELSE @]

\* One matcher of the scan: push the flag, and take over severity, action
\* and confidence when the rule's severity is strictly higher; a keyword
\* match also sets definitive, a pattern match leaves it.
ApplyMatcher(result, m) ==
  LET flagged == [result EXCEPT !.flags = Append(@, [type |-> m.category, kind |-> m.kind])]
  IN IF getSeverityLevel(m.severity) > getSeverityLevel(result.severity)
       THEN [flagged EXCEPT
               !.severity = m.severity,
               !.action = m.action,
               !.confidence = IF m.kind = "keyword" THEN KeywordConfidence
                              ELSE PatternConfidence,
               !.definitive = IF m.kind = "keyword" THEN m.severity = "critical"
                              ELSE @]
       ELSE flagged

RECURSIVE ScanFrom(_, _, _)
ScanFrom(str, i, result) ==
  IF i > Len(MatcherList) THEN result
  ELSE ScanFrom(str, i + 1,
         IF Matches(MatcherList[i], str)
           THEN ApplyMatcher(result, MatcherList[i])
           ELSE result)

\* The result object before any rule has matched.
EmptyResult ==
  [flags |-> <<>>, severity |-> "none", action |-> "none",
   confidence |-> 0, definitive |-> FALSE]

applyRuleBasedModeration(str) == ScanFrom(str, 1, EmptyResult)

\* ------------------------------------------------------------ analyzeContent
\* What performAIAnalysis returns: the parsed classifier answer, or its
\* fallback when generateContent throws or the answer is no JSON. flagsOk is
\* FALSE for an answer whose "flags" is no array (a number, an object);
\* error is the fallback's `error: 'AI analysis unavailable'`.
AIFallback ==
  [severity |-> "none", action |-> "none", confidence |-> 0, flagsOk |-> TRUE,
   flags |-> <<>>, error |-> TRUE]

AIResults ==
  { [severity |-> x[1], action |-> "intervention", confidence |-> x[2],
     flagsOk |-> TRUE, flags |-> <<[type |-> "ai", kind |-> "ai"]>>,
     error |-> FALSE] :
      x \in {<<"low", 9>>, <<"medium", 9>>, <<"high", 5>>, <<"critical", 9>>} }
  \cup { AIFallback }
  \cup { [severity |-> "high", action |-> "intervention", confidence |-> 9,
          flagsOk |-> FALSE, flags |-> <<>>, error |-> FALSE] }

\* The outcomes of the classifier call: generateContent throws, the answer is
\* no JSON, or the answer parses.
ClassifierOutcomes ==
  {[kind |-> k, answer |-> AIFallback] : k \in {"throws", "unparsable"}}
  \cup {[kind |-> "parsed", answer |-> r] : r \in AIResults \ {AIFallback}}

\* Mutant of performAIAnalysis: the catch's object has no flags array.
performAIAnalysisNoFlags(o) ==
  IF o.kind = "parsed" THEN o.answer ELSE [AIFallback EXCEPT !.flagsOk = FALSE]

\* performAIAnalysis: the fields of the parsed answer, or the object of the
\* catch.
performAIAnalysis(o) ==
  IF o.kind = "parsed" THEN o.answer ELSE AIFallback

Max(a, b) == IF a > b THEN a ELSE b

\* applyRuleBasedModeration is a pure function of the content: its results on
\* the contents of the model, computed once.
RuleResults == [x \in Texts |-> applyRuleBasedModeration(x)]

\* The analysis object after the rule stage (lines 458-477).
RuleAnalysis(c, s, p) ==
  LET rb == IF c.isString THEN RuleResults[c.chars] ELSE EmptyResult
  IN [ content |-> c, sessionId |-> s, participantId |-> p,
       severity |-> rb.severity, action |-> rb.action,
       confidence |-> rb.confidence, flags |-> rb.flags,
       definitive |-> rb.definitive,
       ruleSeverity |-> rb.severity, ruleAction |-> rb.action,
       ruleConfidence |-> rb.confidence,
       aiRan |-> FALSE, aiResult |-> AIFallback, errorPath |-> FALSE,
       pc |-> "rules", logKey |-> <<s, 0>>, logResult |-> "none" ]

\* The verdict of the catch block (lines 498-508).
ErrorAnalysis(rec) ==
  [rec EXCEPT !.severity = "none", !.action = "none", !.confidence = 0,
              !.flags = <<>>, !.errorPath = TRUE, !.pc = "returned"]

\* Mutant of CombineAI: the AI result is also taken when the severities are
\* equal.
CombineAITieToAI(rec, ai) ==
  LET merged ==
        IF getSeverityLevel(ai.severity) >= getSeverityLevel(rec.severity)
          THEN [rec EXCEPT !.severity = ai.severity,
                           !.action = ai.action,
                           !.confidence = Max(rec.confidence, ai.confidence)]
          ELSE rec
  IN [merged EXCEPT !.flags = @ \o ai.flags, !.aiRan = TRUE, !.aiResult = ai]

\* Combine results (take higher severity), lines 483-491.
CombineAI(rec, ai) ==
  LET merged ==
        IF getSeverityLevel(ai.severity) > getSeverityLevel(rec.severity)
          THEN [rec EXCEPT !.severity = ai.severity,
                           !.action = ai.action,
                           !.confidence = Max(rec.confidence, ai.confidence)]
          ELSE rec
  IN [merged EXCEPT !.flags = @ \o ai.flags, !.aiRan = TRUE, !.aiResult = ai]

\* Mutant of NeedsAI: the AI stage runs on every content longer than ten
\* characters, definitive or not.
NeedsAILengthOnly(rec) == Len(rec.content.chars) > 10

\* content.length > 10 && !ruleBasedResult.definitive
NeedsAI(rec) == Len(rec.content.chars) > 10 /\ ~rec.definitive

\* The data object logModerationEvent builds for analysis number a.
LogData(a, rec) ==
  [ a |-> a, sessionId |-> rec.sessionId, participantId |-> rec.participantId,
    severity |-> rec.severity, action |-> rec.action,
    confidence |-> rec.confidence, timestamp |-> now,
    id |-> <<rec.sessionId, now>> ]

\* `await this.logModerationEvent(analysis)` up to its first await: the key
\* is built from Date.now(); the memory fallback pushes and returns at once.
StartLog(rec) ==
  [rec EXCEPT !.logKey = <<rec.sessionId, now>>,
              !.pc = IF redis THEN "log_setex" ELSE "returned",
              !.logResult = IF redis THEN "none" ELSE "true"]

StartLogMemory(a, rec) ==
  IF redis THEN moderationLogs ELSE Append(moderationLogs, LogData(a, rec))

analyzeContent(c, s, p) ==
  /\ Len(analyses) < MaxAnalyses
  /\ LET a == Len(analyses) + 1
         rec == RuleAnalysis(c, s, p)
     IN IF ~c.isString
          THEN /\ analyses' = Append(analyses, ErrorAnalysis(rec))
               /\ UNCHANGED moderationLogs
        ELSE IF NeedsAI(rec)
          THEN /\ analyses' = Append(analyses, [rec EXCEPT !.pc = "ai"])
               /\ UNCHANGED moderationLogs
        ELSE /\ analyses' = Append(analyses, StartLog(rec))
             /\ moderationLogs' = StartLogMemory(a, rec)
  /\ UNCHANGED <<extVars, storeVars, rosterVars, handlerVars, escVars, now, modKeys, modList>>

\* performAIAnalysis resolved with ai.
ai_done(a, ai) ==
  /\ a \in 1..Len(analyses)
  /\ analyses[a].pc = "ai"
  /\ IF ~ai.flagsOk
       THEN /\ analyses' = [analyses EXCEPT
                 ![a] = [ErrorAnalysis(analyses[a]) EXCEPT !.aiResult = ai]]
            /\ UNCHANGED moderationLogs
       ELSE /\ analyses' = [analyses EXCEPT
                 ![a] = StartLog(CombineAI(analyses[a], ai))]
            /\ moderationLogs' = StartLogMemory(a, CombineAI(analyses[a], ai))
  /\ UNCHANGED <<extVars, storeVars, rosterVars, handlerVars, escVars, now, modKeys, modList>>

\* RedisSessionManager.logModerationEvent in Redis mode: setex of the event
\* under its key, lpush of the key on the session's list, expire of the
\* list. Any of them may throw: the catch returns false, which
\* AIModerationService.logModerationEvent ignores.
SetKey(keys, key, data) ==
  {e \in keys : e.key # key} \cup {[key |-> key, data |-> data]}

log_setex(a, ok) ==
  /\ a \in 1..Len(analyses)
  /\ analyses[a].pc = "log_setex"
  /\ modKeys' =
       IF ok THEN SetKey(modKeys, analyses[a].logKey,
                         [LogData(a, analyses[a]) EXCEPT
                            !.timestamp = analyses[a].logKey[2],
                            !.id = analyses[a].logKey])
       ELSE modKeys
  /\ analyses' = [analyses EXCEPT
       ![a].pc = IF ok THEN "log_lpush" ELSE "returned",
       ![a].logResult = IF ok THEN "none" ELSE "false"]
  /\ UNCHANGED <<extVars, storeVars, rosterVars, handlerVars, escVars, now, moderationLogs, modList>>

log_lpush(a, ok) ==
  /\ a \in 1..Len(analyses)
  /\ analyses[a].pc = "log_lpush"
  /\ modList' =
       IF ok THEN [modList EXCEPT ![analyses[a].sessionId] =
                     <<analyses[a].logKey>> \o @]
       ELSE modList
  /\ analyses' = [analyses EXCEPT
       ![a].pc = IF ok THEN "log_expire" ELSE "returned",
       ![a].logResult = IF ok THEN "none" ELSE "false"]
  /\ UNCHANGED <<extVars, storeVars, rosterVars, handlerVars, escVars, now, moderationLogs, modKeys>>

log_expire(a, ok) ==
  /\ a \in 1..Len(analyses)
  /\ analyses[a].pc = "log_expire"
  /\ analyses' = [analyses EXCEPT
       ![a].pc = "returned",
       ![a].logResult = IF ok THEN "true" ELSE "false"]
  /\ UNCHANGED <<extVars, storeVars, rosterVars, handlerVars, escVars, now, moderationLogs, modKeys, modList>>

\* Time passes.
Tick ==
  /\ now < MaxTime
  /\ now' = now + 1
  /\ UNCHANGED <<extVars, storeVars, rosterVars, handlerVars, escVars, analyses, moderationLogs,
                 modKeys, modList>>

InitAnalyze ==
  /\ IdleHandlers
  /\ IdleLogs
  /\ IdleSchedule
  /\ IdleHook
  /\ IdleStore
  /\ redis \in BOOLEAN
  /\ redisData = [s \in Sessions |-> <<>>]
  /\ sessionStates = [s \in Sessions |-> NoRef]
  /\ objs = <<>>
  /\ arrs = <<>>
  /\ calls = <<>>

NextAnalyze ==
  \/ \E c \in Contents, s \in Sessions : analyzeContent(c, s, "p1")
  \/ \E a \in 1..MaxAnalyses, o \in ClassifierOutcomes :
       ai_done(a, performAIAnalysis(o))
  \/ \E a \in 1..MaxAnalyses, ok \in BOOLEAN : log_setex(a, ok)
  \/ \E a \in 1..MaxAnalyses, ok \in BOOLEAN : log_lpush(a, ok)
  \/ \E a \in 1..MaxAnalyses, ok \in BOOLEAN : log_expire(a, ok)
  \/ Tick

SpecAnalyze == InitAnalyze /\ [][NextAnalyze]_vars

\* ---------------------------------------------------------- analysis claims
\* The moderation-log entry of analysis a is in the store.
Persisted(a) ==
  IF redis THEN \E e \in modKeys : e.data.a = a
  ELSE \E i \in 1..Len(moderationLogs) : moderationLogs[i].a = a

\* C8: every verdict analyzeContent has returned has been persisted as a
\* moderation-log entry.
C8_VerdictPersistedBeforeReturn ==
  \A a \in 1..Len(analyses) : analyses[a].pc = "returned" => Persisted(a)

\* ------------------------------------------------- executeModerationAction
\* this.emergencyProtocols: the flags executeModerationAction reads.
EmergencyProtocols ==
  [ immediate_intervention |-> [notify_moderators |-> TRUE],
    warn_and_monitor |-> [auto_warning |-> TRUE],
    auto_filter |-> [block_message |-> TRUE] ]

\* analysis.action as a verdict can carry it: the rule categories' actions,
\* none, and the classifier's "intervention".
VerdictActions ==
  {"none", "immediate_intervention", "warn_and_monitor", "auto_filter",
   "intervention"}

\* io.to('moderators'): one room for all sessions
GlobalModerators == <<"moderators">>

IoEmit(ev, to, p, x) == [ev |-> ev, to |-> to, pid |-> p, x |-> x]

\* `if (!protocol) return;`
NoReport == [action |-> "undefined", executed |-> <<>>]

NewExec(action, s, p, supportive) ==
  [ action |-> action, sessionId |-> s, participantId |-> p,
    supportive |-> supportive, pc |-> "returned", report |-> NoReport,
    key |-> <<s, 0>>, attempts |-> 0, storeResult |-> "none" ]

\* The emits of the immediate_intervention branch (lines 637-657).
InterventionEmits(x, s, p, supportive) ==
  (IF EmergencyProtocols["immediate_intervention"].notify_moderators
     THEN <<IoEmit("crisis_alert", GlobalModerators, p, x)>> ELSE <<>>)
  \o (IF supportive THEN <<IoEmit("system_message", Room(s), p, x)>>
      ELSE <<>>)

InterventionExecuted(supportive) ==
  (IF EmergencyProtocols["immediate_intervention"].notify_moderators
     THEN <<"moderator_notification">> ELSE <<>>)
  \o (IF supportive THEN <<"supportive_response">> ELSE <<>>)

\* The data object storeEmergencyAlert builds for invocation x.
AlertData(x, s, p) ==
  [ x |-> x, type |-> "crisis_intervention", participantId |-> p,
    sessionId |-> s, severity |-> "critical", timestamp |-> now,
    id |-> <<s, now>> ]

executeModerationAction(action, s, p, supportive) ==
  /\ Len(execs) < MaxExecs
  /\ LET x == Len(execs) + 1
         e == NewExec(action, s, p, supportive)
     IN IF action \notin DOMAIN EmergencyProtocols
          THEN /\ execs' = Append(execs, e)
               /\ UNCHANGED <<ioEmits, emergencyAlerts>>
        ELSE IF action = "immediate_intervention"
          THEN /\ ioEmits' = ioEmits \o InterventionEmits(x, s, p, supportive)
               /\ IF redis
                    THEN /\ execs' = Append(execs,
                              [e EXCEPT !.pc = "em_setex",
                                 !.report = [action |-> action,
                                    executed |-> InterventionExecuted(supportive)],
                                 !.key = <<s, now>>, !.attempts = 1])
                         /\ UNCHANGED emergencyAlerts
                    ELSE /\ execs' = Append(execs,
                              [e EXCEPT
                                 !.report = [action |-> action,
                                    executed |-> InterventionExecuted(supportive)
                                                 \o <<"emergency_alert_logged">>],
                                 !.key = <<s, now>>, !.attempts = 1,
                                 !.storeResult = "true"])
                         /\ emergencyAlerts' =
                              Append(emergencyAlerts, AlertData(x, s, p))
        ELSE IF action = "warn_and_monitor"
          THEN /\ ioEmits' =
                    IF EmergencyProtocols[action].auto_warning
                      THEN Append(ioEmits, IoEmit("moderation_warning", Room(s), p, x))
                      ELSE ioEmits
               /\ execs' = Append(execs,
                    [e EXCEPT !.report = [action |-> action,
                       executed |-> IF EmergencyProtocols[action].auto_warning
                                      THEN <<"warning_sent">> ELSE <<>>]])
               /\ UNCHANGED emergencyAlerts
        ELSE /\ ioEmits' =
                  IF EmergencyProtocols[action].block_message
                    THEN Append(ioEmits, IoEmit("message_filtered", Room(s), p, x))
                    ELSE ioEmits
             /\ execs' = Append(execs,
                  [e EXCEPT !.report = [action |-> action,
                     executed |-> IF EmergencyProtocols[action].block_message
                                    THEN <<"message_blocked">> ELSE <<>>]])
             /\ UNCHANGED emergencyAlerts
  /\ UNCHANGED <<extVars, storeVars, rosterVars, handlerVars, now, analyses, moderationLogs,
                 modKeys, modList, emKeys, emList>>

\* storeEmergencyAlert in Redis mode: setex, lpush, expire. A throw of any of
\* them is caught, false is returned and the caller, which ignores the
\* value, pushes 'emergency_alert_logged' and returns its report.
StoreStep(x, ok, nextPc) ==
  [execs EXCEPT
     ![x].pc = IF ok THEN nextPc ELSE "returned",
     ![x].storeResult =
        IF ~ok THEN "false" ELSE IF nextPc = "returned" THEN "true" ELSE "none",
     ![x].report.executed =
        IF ok /\ nextPc # "returned" THEN @
        ELSE Append(@, "emergency_alert_logged")]

em_setex(x, ok) ==
  /\ x \in 1..Len(execs)
  /\ execs[x].pc = "em_setex"
  /\ emKeys' =
       IF ok THEN SetKey(emKeys, execs[x].key,
                         [AlertData(x, execs[x].sessionId, execs[x].participantId)
                            EXCEPT !.timestamp = execs[x].key[2],
                                   !.id = execs[x].key])
       ELSE emKeys
  /\ execs' = StoreStep(x, ok, "em_lpush")
  /\ UNCHANGED <<extVars, storeVars, rosterVars, handlerVars, now, analyses, moderationLogs,
                 modKeys, modList, emergencyAlerts, emList, ioEmits>>

em_lpush(x, ok) ==
  /\ x \in 1..Len(execs)
  /\ execs[x].pc = "em_lpush"
  /\ emList' =
       IF ok THEN [emList EXCEPT ![execs[x].sessionId] = <<execs[x].key>> \o @]
       ELSE emList
  /\ execs' = StoreStep(x, ok, "em_expire")
  /\ UNCHANGED <<extVars, storeVars, rosterVars, handlerVars, now, analyses, moderationLogs,
                 modKeys, modList, emergencyAlerts, emKeys, ioEmits>>

em_expire(x, ok) ==
  /\ x \in 1..Len(execs)
  /\ execs[x].pc = "em_expire"
  /\ execs' = StoreStep(x, ok, "returned")
  /\ UNCHANGED <<extVars, storeVars, rosterVars, handlerVars, now, analyses, moderationLogs,
                 modKeys, modList, emergencyAlerts, emKeys, emList, ioEmits>>

InitEscalate == InitAnalyze

NextEscalate ==
  \/ \E action \in VerdictActions, s \in Sessions, p \in Pids,
        supportive \in BOOLEAN :
       executeModerationAction(action, s, p, supportive)
  \/ \E x \in 1..MaxExecs, ok \in BOOLEAN : em_setex(x, ok)
  \/ \E x \in 1..MaxExecs, ok \in BOOLEAN : em_lpush(x, ok)
  \/ \E x \in 1..MaxExecs, ok \in BOOLEAN : em_expire(x, ok)
  \/ Tick

SpecEscalate == InitEscalate /\ [][NextEscalate]_vars

\* -------------------------------------------------------- escalation claims
\* C7: when storing an EmergencyAlert has been reported as failed, a second
\* attempt had been made.
C7_StoreRetriedBeforeFailure ==
  \A x \in 1..Len(execs) :
    execs[x].storeResult = "false" => execs[x].attempts >= 2

\* ============================================================ router claims
\* The channels of session s: session-wide, moderators-only, audio.
ChannelsOf(s) == {Room(s), ModRoom(s), AudioRoom(s)}

\* C11: a sanctuary_new_message or emergency_alert published session-wide by
\* a handler working for session s goes to no channel of another session,
\* and the session-wide and moderators-only channel names of different
\* sessions are different.
C11_RoomsIsolatedPerSession ==
  \A i \in 1..Len(emitted) :
    emitted[i].ev \in {"sanctuary_new_message", "emergency_alert"}
      => \A s \in Sessions :
           s # handlers[emitted[i].h].sessionId
             => emitted[i].to \notin ChannelsOf(s)

\* C12: the sanctuary_new_message broadcasts of one session are emitted in
\* the order in which their sanctuary_message events were received: of two
\* broadcasts to the same session, the earlier one belongs to the handler
\* that started earlier.
C12_RoomDeliveryInReceiveOrder ==
  \A i, j \in 1..Len(emitted) :
    (/\ i < j
     /\ emitted[i].ev = "sanctuary_new_message"
     /\ emitted[j].ev = "sanctuary_new_message"
     /\ handlers[emitted[i].h].sessionId = handlers[emitted[j].h].sessionId)
      => emitted[i].h < emitted[j].h

\* ============================================================== state store
\* The state argument of setSessionState: an object without a participants
\* property ("bare") or with an empty roster ("empty").
StateKinds == {"bare", "empty"}

\* What a finished getSessionState returned: <<>> for null, else <<value>>.
NoValue == <<>>

NewStoreCall(op, s, kind) ==
  [ op |-> op, sessionId |-> s, kind |-> kind, pc |-> "done",
    result |-> "none", value |-> NoValue,
    \* history: the call went through `catch (error)`
    failed |-> FALSE,
    \* history: the Redis backend was unavailable to the call (this.redis
    \* was null, or the Redis command was rejected)
    unavailable |-> FALSE,
    \* history: the successful setSessionState calls on the session that
    \* had returned when a get read the store
    setsDone |-> {} ]

\* The successful setSessionState calls on session s that have returned.
SetsDone(s) ==
  {c \in 1..Len(storeCalls) :
     /\ storeCalls[c].op = "set" /\ storeCalls[c].sessionId = s
     /\ storeCalls[c].pc = "done" /\ storeCalls[c].result = "true"}

\* `await this.redis.connect()` of init resolves, or rejects and the catch
\* sets this.redis = null.
init_connect ==
  /\ initPc = "connecting"
  /\ initPc' = "done"
  /\ redis' = (backend = "up")
  /\ UNCHANGED <<extVars, redisData, sessionStates, objs, arrs, calls, handlerVars,
                 logVars, backend, storeCalls, expired>>

\* The Redis server becomes unreachable / reachable again.
BackendDown ==
  /\ backend = "up"
  /\ backend' = "down"
  /\ UNCHANGED <<extVars, rosterVars, handlerVars, logVars, initPc, storeCalls, expired>>

BackendUp ==
  /\ backend = "down"
  /\ backend' = "up"
  /\ UNCHANGED <<extVars, rosterVars, handlerVars, logVars, initPc, storeCalls, expired>>

\* setSessionState(s, state) up to its return (memory fallback) or to the
\* await of setex.
StateObj(kind) ==
  [ participants |-> IF kind = "empty" THEN Len(arrs) + 1 ELSE NoRef,
    currentParticipants |-> IF kind = "empty" THEN 0 ELSE NoCount,
    timestamp |-> TRUE,
    lastUpdated |-> FALSE ]

setSessionState(s, kind) ==
  /\ Len(storeCalls) < MaxStoreCalls
  /\ IF ~redis
       THEN /\ arrs' = IF kind = "empty" THEN Append(arrs, <<>>) ELSE arrs
            /\ objs' = Append(objs, StateObj(kind))
            /\ sessionStates' = [sessionStates EXCEPT ![s] = Len(objs) + 1]
            /\ storeCalls' = Append(storeCalls,
                 [NewStoreCall("set", s, kind) EXCEPT
                    !.result = "true", !.unavailable = TRUE])
       ELSE /\ storeCalls' = Append(storeCalls,
                 [NewStoreCall("set", s, kind) EXCEPT !.pc = "setex"])
            /\ UNCHANGED <<arrs, objs, sessionStates>>
  /\ expired' = IF redis THEN expired ELSE expired \ {<<"session", s>>}
  /\ UNCHANGED <<extVars, redis, redisData, calls, handlerVars, logVars, backend,
                 initPc>>

\* redis.setex of setSessionState resolves, or rejects and the catch
\* returns false.
set_setex(c) ==
  /\ c \in 1..Len(storeCalls)
  /\ storeCalls[c].op = "set" /\ storeCalls[c].pc = "setex"
  /\ redisData' =
       IF backend = "up"
         THEN [redisData EXCEPT ![storeCalls[c].sessionId] =
                 <<InitValue(storeCalls[c].kind)>>]
         ELSE redisData
  /\ storeCalls' = [storeCalls EXCEPT
       ![c].pc = "done",
       ![c].result = IF backend = "up" THEN "true" ELSE "false",
       ![c].failed = (backend # "up"),
       ![c].unavailable = (backend # "up")]
  /\ expired' = IF backend = "up"
                  THEN expired \ {<<"session", storeCalls[c].sessionId>>}
                  ELSE expired
  /\ UNCHANGED <<extVars, redis, sessionStates, objs, arrs, calls, handlerVars, logVars,
                 backend, initPc>>

\* getSessionState(s) up to its return (memory fallback) or to the await
\* of redis.get.
getSessionState(s) ==
  /\ Len(storeCalls) < MaxStoreCalls
  /\ storeCalls' = Append(storeCalls,
       IF ~redis
         THEN [NewStoreCall("get", s, "none") EXCEPT
                 !.value = IF sessionStates[s] = NoRef THEN NoValue
                           ELSE <<ValueOf(objs[sessionStates[s]], arrs)>>,
                 !.unavailable = TRUE, !.setsDone = SetsDone(s)]
         ELSE [NewStoreCall("get", s, "none") EXCEPT !.pc = "get"])
  /\ UNCHANGED <<extVars, rosterVars, handlerVars, logVars, backend, initPc, expired>>

\* redis.get resolves and the data is parsed, or it rejects and the catch
\* returns null.
get_get(c) ==
  /\ c \in 1..Len(storeCalls)
  /\ storeCalls[c].op = "get" /\ storeCalls[c].pc = "get"
  /\ storeCalls' = [storeCalls EXCEPT
       ![c].pc = "done",
       ![c].value = IF backend = "up" THEN redisData[storeCalls[c].sessionId]
                    ELSE NoValue,
       ![c].setsDone = SetsDone(storeCalls[c].sessionId),
       ![c].failed = (backend # "up"),
       ![c].unavailable = (backend # "up")]
  /\ UNCHANGED <<extVars, rosterVars, handlerVars, logVars, backend, initPc, expired>>

\* healthCheck() up to its return (memory fallback) or to the await of ping.
healthCheck ==
  /\ Len(storeCalls) < MaxStoreCalls
  /\ storeCalls' = Append(storeCalls,
       IF ~redis
         THEN [NewStoreCall("health", "A", "none") EXCEPT
                 !.result = "memory_mode", !.unavailable = TRUE]
         ELSE [NewStoreCall("health", "A", "none") EXCEPT !.pc = "ping"])
  /\ UNCHANGED <<extVars, rosterVars, handlerVars, logVars, backend, initPc, expired>>

hc_ping(c) ==
  /\ c \in 1..Len(storeCalls)
  /\ storeCalls[c].op = "health" /\ storeCalls[c].pc = "ping"
  /\ storeCalls' = [storeCalls EXCEPT
       ![c].pc = "done",
       ![c].result = IF backend = "up" THEN "healthy" ELSE "unhealthy",
       ![c].failed = (backend # "up"),
       ![c].unavailable = (backend # "up")]
  /\ UNCHANGED <<extVars, rosterVars, handlerVars, logVars, backend, initPc, expired>>

\* After construction: REDIS_ENABLED is not 'true' and this.redis stays
\* null, or the client has been created and init awaits connect().
InitStore ==
  /\ IdleHandlers
  /\ IdleLogs
  /\ IdleSchedule
  /\ IdleHook
  /\ redis \in BOOLEAN
  /\ initPc = IF redis THEN "connecting" ELSE "done"
  /\ backend \in {"up", "down"}
  /\ storeCalls = <<>>
  /\ expired = {}
  /\ redisData = [s \in Sessions |-> <<>>]
  /\ sessionStates = [s \in Sessions |-> NoRef]
  /\ objs = <<>>
  /\ arrs = <<>>
  /\ calls = <<>>

NextStore ==
  \/ init_connect
  \/ BackendDown
  \/ BackendUp
  \/ \E s \in Sessions, kind \in StateKinds : setSessionState(s, kind)
  \/ \E c \in 1..MaxStoreCalls : set_setex(c)
  \/ \E s \in Sessions : getSessionState(s)
  \/ \E c \in 1..MaxStoreCalls : get_get(c)
  \/ healthCheck
  \/ \E c \in 1..MaxStoreCalls : hc_ping(c)

SpecStore == InitStore /\ [][NextStore]_vars

\* C13: a setSessionState, getSessionState or healthCheck call to which the
\* Redis backend was unavailable has succeeded all the same: the set returned
\* true, the get did not end in its error branch, and healthCheck returned a
\* status other than healthy.
C13_FallbackWhenRedisUnavailable ==
  \A c \in 1..Len(storeCalls) :
    (storeCalls[c].pc = "done" /\ storeCalls[c].unavailable)
      => CASE storeCalls[c].op = "set" -> storeCalls[c].result = "true"
           [] storeCalls[c].op = "get" -> ~storeCalls[c].failed
           [] storeCalls[c].op = "health" ->
                storeCalls[c].result \in {"memory_mode", "unhealthy"}

\* ================================================================ retention
\* The emergency alert of executeModerationAction invocation x is in the
\* store.
AlertStored(x) ==
  IF redis THEN \E k \in emKeys : k.data.x = x
  ELSE \E i \in 1..Len(emergencyAlerts) : emergencyAlerts[i].x = x

\* The writes the store keeps: the snapshot of a session, the moderation
\* event of an analysis, the emergency alert of an escalation.
Writes ==
  {<<"session", s>> : s \in Sessions}
    \cup {<<"moderation", a>> : a \in 1..MaxAnalyses}
    \cup {<<"emergency", x>> : x \in 1..MaxExecs}

Present(w) ==
  CASE w[1] = "session" -> Stored(w[2]) # <<>>
    [] w[1] = "moderation" -> w[2] \in 1..Len(analyses) /\ Persisted(w[2])
    [] w[1] = "emergency" -> w[2] \in 1..Len(execs) /\ AlertStored(w[2])

\* The retention period of a stored write runs out. A Redis key written by
\* setex (86400 s, 604800 s, 2592000 s) is deleted by Redis; the memory
\* fallback stamps no TTL and no code removes an entry by its age.
RetentionElapsed(w) ==
  /\ Present(w)
  /\ w \notin expired
  /\ expired' = expired \cup {w}
  /\ redisData' =
       IF redis /\ w[1] = "session" THEN [redisData EXCEPT ![w[2]] = <<>>]
       ELSE redisData
  /\ modKeys' =
       IF redis /\ w[1] = "moderation"
         THEN {k \in modKeys : k.data.a # w[2]} ELSE modKeys
  /\ emKeys' =
       IF redis /\ w[1] = "emergency"
         THEN {k \in emKeys : k.data.x # w[2]} ELSE emKeys
  /\ UNCHANGED <<extVars, redis, sessionStates, objs, arrs, calls, handlerVars, now,
                 analyses, moderationLogs, modList, execs, emergencyAlerts,
                 emList, ioEmits, backend, initPc, storeCalls>>

\* cleanup(): the memory fallback empties its globals; in Redis mode nothing
\* is removed.
cleanup ==
  /\ sessionStates' =
       IF redis THEN sessionStates ELSE [s \in Sessions |-> NoRef]
  /\ objs' = IF redis THEN objs
             ELSE CollectObjs(objs, [s \in Sessions |-> NoRef], calls)
  /\ arrs' = IF redis THEN arrs
             ELSE CollectArrs(objs, arrs, [s \in Sessions |-> NoRef], calls)
  /\ moderationLogs' = IF redis THEN moderationLogs ELSE <<>>
  /\ emergencyAlerts' = IF redis THEN emergencyAlerts ELSE <<>>
  /\ UNCHANGED <<extVars, redis, redisData, calls, handlerVars, now, analyses, modKeys,
                 modList, execs, emKeys, emList, ioEmits, storeVars>>

\* The store after init, in Redis mode or in the memory fallback, with the
\* Redis server reachable.
InitRetention ==
  /\ InitAnalyze

NextRetention ==
  \/ \E s \in Sessions :
       analyzeContent([isString |-> TRUE, chars |-> TextHello], s, "p1")
  \/ \E a \in 1..MaxAnalyses : log_setex(a, TRUE)
  \/ \E a \in 1..MaxAnalyses : log_lpush(a, TRUE)
  \/ \E a \in 1..MaxAnalyses : log_expire(a, TRUE)
  \/ executeModerationAction("immediate_intervention", "A", "p1", FALSE)
  \/ \E x \in 1..MaxExecs : em_setex(x, TRUE)
  \/ \E x \in 1..MaxExecs : em_lpush(x, TRUE)
  \/ \E x \in 1..MaxExecs : em_expire(x, TRUE)
  \/ \E w \in Writes : RetentionElapsed(w)
  \/ cleanup
  \/ Tick

\* The session snapshot operations together with the end of a snapshot's
\* retention period.
NextSnapshot ==
  \/ NextStore
  \/ \E s \in Sessions : RetentionElapsed(<<"session", s>>)

SpecSnapshot == InitStore /\ [][NextSnapshot]_vars

SpecRetention == InitRetention /\ [][NextRetention]_vars

\* C14: a write whose retention period has elapsed is absent from the
\* store, in Redis mode and in the memory fallback alike.
C14_EveryWriteExpires ==
  \A w \in expired : ~Present(w)

\* ------------------------------------------------------- getModerationLogs
\* Array.prototype.slice(0, limit) / lrange(listKey, 0, limit - 1)
FirstN(seq, n) == SubSeq(seq, 1, IF Len(seq) < n THEN Len(seq) ELSE n)

\* Array.prototype.filter(log => log.sessionId === sessionId)
RECURSIVE FilterSession(_, _)
FilterSession(logs, s) ==
  IF logs = <<>> THEN <<>>
  ELSE IF Head(logs).sessionId = s
    THEN <<Head(logs)>> \o FilterSession(Tail(logs), s)
  ELSE FilterSession(Tail(logs), s)

\* The loop over the keys: redis.get of each, the missing ones skipped.
RECURSIVE GetEach(_, _)
GetEach(keys, stored) ==
  IF keys = <<>> THEN <<>>
  ELSE (IF \E k \in stored : k.key = Head(keys)
          THEN <<(CHOOSE k \in stored : k.key = Head(keys)).data>>
          ELSE <<>>)
       \o GetEach(Tail(keys), stored)

\* getModerationLogs(sessionId, limit) of the memory fallback, on the array
\* logs.
MemoryLogs(logs, s, limit) == FirstN(FilterSession(logs, s), limit)

\* getModerationLogs(sessionId, limit) in Redis mode, on the list and keys.
RedisLogs(list, stored, s, limit) == GetEach(FirstN(list[s], limit), stored)

getModerationLogs(s, limit) ==
  IF redis THEN RedisLogs(modList, modKeys, s, limit)
  ELSE MemoryLogs(moderationLogs, s, limit)

\* The analyses that logged their event, as the memory fallback would hold
\* them after the same logModerationEvent calls: one push per call, in the
\* order of the calls.
RECURSIVE PushedFrom(_)
PushedFrom(a) ==
  IF a > Len(analyses) THEN <<>>
  ELSE (IF analyses[a].logResult = "true"
          THEN <<[a |-> a, sessionId |-> analyses[a].sessionId]>> ELSE <<>>)
       \o PushedFrom(a + 1)

\* The events of a log, named by the analysis that wrote them.
EventsOf(logs) == [i \in 1..Len(logs) |-> logs[i].a]

\* C15: in Redis mode, once every logModerationEvent call has returned and
\* no event has expired, getModerationLogs(s, limit) returns the events the
\* memory fallback returns after the same calls, in the same order.
C15_LogsSameInBothModes ==
  (/\ redis
   /\ \A a \in 1..Len(analyses) : analyses[a].logResult = "true"
   /\ \A a \in 1..Len(analyses) : <<"moderation", a>> \notin expired)
    => \A s \in Sessions, limit \in 1..MaxLimit :
         EventsOf(getModerationLogs(s, limit))
           = EventsOf(MemoryLogs(PushedFrom(1), s, limit))

\* C16: no step of the store removes a moderation log entry or an emergency
\* alert whose retention period has not elapsed: an entry that is stored
\* before a step is stored after it, unless the step is the end of its
\* retention period.
C16_NoRemovalBeforeTTL ==
  [][ /\ \A a \in 1..Len(analyses) :
           (Persisted(a) /\ <<"moderation", a>> \notin expired')
             => Persisted(a)'
      /\ \A x \in 1..Len(execs) :
           (AlertStored(x) /\ <<"emergency", x>> \notin expired')
             => AlertStored(x)' ]_vars

\* ================================================================= verdicts
\* analyzeContent on every content of the model, one session, with the log
\* writes succeeding.
NextVerdict ==
  \/ \E c \in Contents : analyzeContent(c, "A", "p1")
  \/ \E a \in 1..MaxAnalyses, o \in ClassifierOutcomes :
       ai_done(a, performAIAnalysis(o))
  \/ \E a \in 1..MaxAnalyses : log_setex(a, TRUE)
  \/ \E a \in 1..MaxAnalyses : log_lpush(a, TRUE)
  \/ \E a \in 1..MaxAnalyses : log_expire(a, TRUE)

SpecVerdict == InitAnalyze /\ [][NextVerdict]_vars

\* The rules the content matches, as positions of the scan.
MatchedBy(str) == {i \in 1..Len(MatcherList) : Matches(MatcherList[i], str)}

\* The texts of the model that match a rule of severity critical.
CriticalTexts ==
  {x \in Texts : \E i \in MatchedBy(x) : MatcherList[i].severity = "critical"}

\* C17: an analysis of a content that matches a rule of severity critical has
\* a definitive rule-stage verdict and never enters the AI stage.
C17_CriticalSkipsAI ==
  \A a \in 1..Len(analyses) :
    (analyses[a].content.isString /\ analyses[a].content.chars \in CriticalTexts)
      => /\ analyses[a].definitive
         /\ analyses[a].pc # "ai"
         /\ ~analyses[a].aiRan

\* A content longer than ten characters that matches a critical keyword and
\* a harassment keyword has been analysed and its verdict returned.
C17_Witness ==
  \E a \in 1..Len(analyses) :
    /\ analyses[a].content.chars = TextHateSuicide
    /\ analyses[a].pc = "returned"
    /\ analyses[a].severity = "critical"
    /\ Len(analyses[a].flags) > 1

\* -------------------------------------------------------------- rule stage
\* The rule stage with the categories scanned in another order: order is a
\* permutation of the positions of ModerationRules.
RECURSIVE MatchersIn(_, _)
MatchersIn(order, k) ==
  IF k > Len(order) THEN <<>>
  ELSE RuleMatchers(ModerationRules[order[k]]) \o MatchersIn(order, k + 1)

RECURSIVE ScanList(_, _, _, _)
ScanList(str, list, i, result) ==
  IF i > Len(list) THEN result
  ELSE ScanList(str, list, i + 1,
         IF Matches(list[i], str) THEN ApplyMatcher(result, list[i])
         ELSE result)

RuleStageIn(str, order) == ScanList(str, MatchersIn(order, 1), 1, EmptyResult)

Orders ==
  {o \in [1..Len(ModerationRules) -> 1..Len(ModerationRules)] :
     \A i, j \in 1..Len(ModerationRules) : o[i] = o[j] => i = j}

\* The severities the rule stage returns for a text over all scan orders.
SeveritiesAnyOrder == [x \in Texts |-> {RuleStageIn(x, o).severity : o \in Orders}]

Severities == {"none", "low", "medium", "high", "critical"}

\* The highest severity among the rules a text matches, none when it matches
\* no rule.
MaxSeverity ==
  [x \in Texts |->
     CHOOSE sv \in Severities :
       /\ sv = "none" \/ \E i \in MatchedBy(x) : MatcherList[i].severity = sv
       /\ \A i \in MatchedBy(x) :
            getSeverityLevel(MatcherList[i].severity) <= getSeverityLevel(sv)]

\* C18: the severity of the rule stage is the highest severity among the
\* keyword and pattern rules the content matches, none when it matches no
\* rule, and it is the same for every order of scanning the categories.
C18_RuleSeverityIsMax ==
  \A a \in 1..Len(analyses) :
    analyses[a].content.isString
      => /\ analyses[a].ruleSeverity = MaxSeverity[analyses[a].content.chars]
         /\ SeveritiesAnyOrder[analyses[a].content.chars]
              = {analyses[a].ruleSeverity}

\* A content that matches a rule of severity high and, later in the scan, a
\* rule of severity medium has gone through the rule stage.
C18_Witness ==
  \E a \in 1..Len(analyses) :
    /\ analyses[a].content.chars = TextExplicitHate
    /\ analyses[a].ruleSeverity = "high"
    /\ Len(analyses[a].flags) > 1

\* ------------------------------------------------------------------- merge
\* The analysis went through the AI stage and the merge.
Merged(a) == analyses[a].aiRan /\ ~analyses[a].errorPath

\* C19: after the merge the severity of the verdict is the higher of the
\* rule-stage severity and the AI severity; when the two are equal, severity
\* and action are those of the rule stage.
C19_MergeTakesHigherRuleWinsTie ==
  \A a \in 1..Len(analyses) :
    Merged(a) =>
      LET rule == getSeverityLevel(analyses[a].ruleSeverity)
          ai == getSeverityLevel(analyses[a].aiResult.severity)
      IN /\ analyses[a].severity =
              IF ai > rule THEN analyses[a].aiResult.severity
              ELSE analyses[a].ruleSeverity
         /\ getSeverityLevel(analyses[a].severity) = Max(rule, ai)
         /\ ai = rule => /\ analyses[a].severity = analyses[a].ruleSeverity
                         /\ analyses[a].action = analyses[a].ruleAction

\* A merge of a rule-stage verdict of severity medium with an AI result of
\* severity medium and another action has been returned.
C19_Witness ==
  \E a \in 1..Len(analyses) :
    /\ Merged(a)
    /\ analyses[a].pc = "returned"
    /\ analyses[a].ruleSeverity = "medium"
    /\ analyses[a].aiResult.severity = "medium"
    /\ analyses[a].aiResult.action # analyses[a].ruleAction

\* C20: after the merge the confidence of the verdict is the maximum of the
\* rule-stage confidence and the AI confidence, whether the AI severity is
\* higher than, equal to or lower than the rule-stage severity.
C20_MergedConfidenceIsMax ==
  \A a \in 1..Len(analyses) :
    Merged(a) =>
      analyses[a].confidence =
        Max(analyses[a].ruleConfidence, analyses[a].aiResult.confidence)

\* ------------------------------------------------------ routing to the AI stage
\* Analysis a entered the AI stage: performAIAnalysis was called (pending,
\* combined, or ended in the catch after it).
RoutedToAI(a) ==
  \/ analyses[a].pc = "ai"
  \/ analyses[a].aiRan
  \/ analyses[a].errorPath /\ analyses[a].content.isString

\* The minimum length of the claim: a content of ten characters is at the
\* threshold.
LengthThreshold == 10

\* C21: the AI stage is skipped exactly when the rule verdict is definitive
\* or the content is shorter than the threshold; a content of exactly ten
\* characters whose rule verdict is not definitive enters the AI stage.
C21_AISkippedExactly ==
  \A a \in 1..Len(analyses) :
    analyses[a].content.isString =>
      (RoutedToAI(a) <=>
         (~analyses[a].definitive
            /\ Len(analyses[a].content.chars) >= LengthThreshold))

dispatch(a) ==
  /\ a \in 1..Len(analyses)
  /\ analyses[a].pc = "returned"
  /\ executeModerationAction(analyses[a].action, analyses[a].sessionId,
                             analyses[a].participantId, FALSE)

NextDispatch ==
  \/ \E c \in Contents : analyzeContent(c, "A", "p1")
  \/ \E a \in 1..MaxAnalyses, o \in ClassifierOutcomes :
       ai_done(a, performAIAnalysis(o))
  \/ \E a \in 1..MaxAnalyses : log_setex(a, TRUE)
  \/ \E a \in 1..MaxAnalyses : log_lpush(a, TRUE)
  \/ \E a \in 1..MaxAnalyses : log_expire(a, TRUE)
  \/ \E a \in 1..MaxAnalyses : dispatch(a)
  \/ \E x \in 1..MaxExecs : em_setex(x, TRUE)
  \/ \E x \in 1..MaxExecs : em_lpush(x, TRUE)
  \/ \E x \in 1..MaxExecs : em_expire(x, TRUE)

SpecDispatch == InitAnalyze /\ [][NextDispatch]_vars

\* The emits of invocation x of executeModerationAction.
EmitsOf(x) == {i \in 1..Len(ioEmits) : ioEmits[i].x = x}

\* C23: executeModerationAction on a returned verdict: action none has no
\* effect and no report; every other action yields an ActionReport whose
\* executed list is not empty.
C23_EveryActionHasItsEffects ==
  \A x \in 1..Len(execs) :
    execs[x].pc = "returned" =>
      IF execs[x].action = "none"
        THEN execs[x].report = NoReport /\ EmitsOf(x) = {}
        ELSE /\ execs[x].report # NoReport
             /\ Len(execs[x].report.executed) > 0

\* ========================================================= escalation audience
\* C24: the crisis_alert of an immediate_intervention for session s is
\* addressed to the moderators' channel of session s, which no other
\* session shares.
C24_CrisisAlertToSessionModeratorsOnly ==
  \A i \in 1..Len(ioEmits) :
    ioEmits[i].ev = "crisis_alert"
      => /\ ioEmits[i].to = ModRoom(execs[ioEmits[i].x].sessionId)
         /\ \A j \in 1..Len(ioEmits) :
              (/\ ioEmits[j].ev = "crisis_alert"
               /\ execs[ioEmits[j].x].sessionId # execs[ioEmits[i].x].sessionId)
                => ioEmits[j].to # ioEmits[i].to

\* ======================================================== crisis intervention
\* C25: a handled sanctuary_message whose result is critical with a
\* self_harm / suicide_ideation pattern has sent crisis_intervention_triggered
\* to the moderators of its session, also when the participant has no
\* connected socket, and crisis_intervention to the participant when the
\* socket stayed connected.
C25_CrisisSequenceFires ==
  \A h \in 1..Len(handlers) :
    (/\ handlers[h].kind = "msg"
     /\ handlers[h].pc = "done"
     /\ handlers[h].path \in {"block", "flag", "normal"}
     /\ handlers[h].result.severity = "critical"
     /\ handlers[h].result.selfHarm)
      => /\ \E i \in EmittedBy(h) :
              /\ emitted[i].ev = "crisis_intervention_triggered"
              /\ emitted[i].to = ModRoom(handlers[h].sessionId)
         /\ handlers[h].disconnectedAt = "no"
              => \E i \in EmittedBy(h) :
                   /\ emitted[i].ev = "crisis_intervention"
                   /\ emitted[i].to = SocketOf(handlers[h].pid)

\* ========================================================= escalation reports
\* C26: an ActionReport lists 'emergency_alert_logged' only when
\* storeEmergencyAlert returned true, the alert being stored.
C26_LoggedOnlyWhenStored ==
  \A x \in 1..Len(execs) :
    (/\ execs[x].pc = "returned"
     /\ \E i \in 1..Len(execs[x].report.executed) :
          execs[x].report.executed[i] = "emergency_alert_logged")
      => execs[x].storeResult = "true"

\* =========================================================== moderator_action
\* The cases of the handler's switch.
ModeratorActions ==
  {"warn_participant", "temporary_mute", "remove_participant", "ban_participant"}

\* data.action as a client can send it.
ActionNames == ModeratorActions \cup {"other"}

\* sessionManager.isParticipantModerator(sessionId, userId): p2 is a
\* moderator of the session it joined, p1 of none.
isParticipantModerator(s, p) == p = "p2" /\ socketSession[p] = s

\* The outcomes of `await isParticipantModerator(...)`: its value, or a throw.
CheckOutcomes(s, p) ==
  {IF isParticipantModerator(s, p) THEN "true" ELSE "false", "throws"}

\* socket.on('moderator_action'): the handler awaits the permission check.
\* executed and logged record what the handler did.
moderator_action(p, s, action) ==
  /\ connected[p]
  /\ Len(handlers) < MaxEvents
  /\ handlers' = Append(handlers,
       NewHandler("modaction", p, s, "checking", "none")
         @@ [action |-> action, executed |-> "none", logged |-> FALSE])
  /\ UNCHANGED <<extVars, storeVars, rosterVars, logVars, connected, socketSession,
                 voiceStreamActive, activeSpeakers, emitted>>

\* The permission check settles: denied, or on to the switch, or the catch.
mod_checked(h, outcome) ==
  /\ h \in 1..Len(handlers)
  /\ handlers[h].kind = "modaction" /\ handlers[h].pc = "checking"
  /\ outcome \in CheckOutcomes(handlers[h].sessionId, handlers[h].pid)
  /\ emitted' =
       IF outcome = "false"
         THEN Append(emitted, Emit("moderator_action_denied",
                                   SocketOf(handlers[h].pid), handlers[h].pid, h))
         ELSE emitted
  /\ handlers' = [handlers EXCEPT
       ![h].pc = IF outcome # "true" THEN "done"
                 ELSE IF handlers[h].action \in ModeratorActions THEN "executing"
                 ELSE "logging",
       ![h].path = IF outcome = "true" THEN "allowed"
                   ELSE IF outcome = "false" THEN "denied" ELSE "error"]
  /\ UNCHANGED <<extVars, storeVars, rosterVars, logVars, connected, socketSession,
                 voiceStreamActive, activeSpeakers>>

\* warnParticipant / temporaryMuteParticipant / removeParticipant /
\* banParticipant settles: the action is executed, or a throw goes to the
\* catch.
mod_executed(h, ok) ==
  /\ h \in 1..Len(handlers)
  /\ handlers[h].kind = "modaction" /\ handlers[h].pc = "executing"
  /\ handlers' = [handlers EXCEPT
       ![h].pc = IF ok THEN "logging" ELSE "done",
       ![h].executed = IF ok THEN handlers[h].action ELSE @,
       ![h].path = IF ok THEN @ ELSE "error"]
  /\ UNCHANGED <<extVars, storeVars, rosterVars, logVars, connected, socketSession,
                 voiceStreamActive, activeSpeakers, emitted>>

\* sessionManager.logModeratorAction settles.
mod_logged(h, ok) ==
  /\ h \in 1..Len(handlers)
  /\ handlers[h].kind = "modaction" /\ handlers[h].pc = "logging"
  /\ handlers' = [handlers EXCEPT
       ![h].pc = "done",
       ![h].logged = ok,
       ![h].path = IF ok THEN @ ELSE "error"]
  /\ UNCHANGED <<extVars, storeVars, rosterVars, logVars, connected, socketSession,
                 voiceStreamActive, activeSpeakers, emitted>>

NextModAction ==
  \/ \E p \in Pids, s \in Sessions, action \in ActionNames :
       moderator_action(p, s, action)
  \/ \E h \in 1..MaxEvents, outcome \in {"true", "false", "throws"} :
       mod_checked(h, outcome)
  \/ \E h \in 1..MaxEvents, ok \in BOOLEAN : mod_executed(h, ok)
  \/ \E h \in 1..MaxEvents, ok \in BOOLEAN : mod_logged(h, ok)

SpecModAction == InitHandlers /\ [][NextModAction]_vars

\* C27: a moderator_action from a participant who is no moderator of the
\* session has executed none of warn / mute / remove / ban, has written no
\* moderator-action log entry, and has been answered with
\* moderator_action_denied.
C27_NonModeratorDenied ==
  \A h \in 1..Len(handlers) :
    (/\ handlers[h].kind = "modaction"
     /\ handlers[h].pc = "done"
     /\ ~isParticipantModerator(handlers[h].sessionId, handlers[h].pid))
      => /\ handlers[h].executed = "none"
         /\ ~handlers[h].logged
         /\ \E i \in EmittedBy(h) :
              /\ emitted[i].ev = "moderator_action_denied"
              /\ emitted[i].to = SocketOf(handlers[h].pid)

\* ================================================================ roster keys
\* C28: no participant id is in the participants lists of two different
\* stored sessions.
C28_OneSessionPerParticipant ==
  \A s1, s2 \in Sessions :
    s1 # s2 => StoredIds(s1) \cap StoredIds(s2) = {}

\* C29: the entry updateParticipant(sessionId, participantId,
\* participantData) creates or updates has id participantId afterwards:
\* when the only call on a session was a successful update, the stored
\* roster has an entry with that id.
C29_EntryKeepsParticipantId ==
  \A c \in 1..Len(calls) :
    (/\ DoneOk(c)
     /\ calls[c].op = "update"
     /\ \A c2 \in 1..Len(calls) :
          calls[c2].sessionId = calls[c].sessionId => c2 = c)
      => calls[c].participantId \in StoredIds(calls[c].sessionId)

\* ================================================================= round trip
\* The state argument of setSessionState as a value: the caller's object,
\* which carries neither of the store's stamps.
StateArg(kind) ==
  [InitValue(kind) EXCEPT !.timestamp = FALSE, !.lastUpdated = FALSE]

\* C30: a getSessionState(s) that reads after the only setSessionState(s,
\* state) has returned true returns a value equal to state in every field,
\* in Redis mode and in the memory fallback.
C30_RoundTripEqualsState ==
  \A g \in 1..Len(storeCalls) :
    (storeCalls[g].op = "get" /\ storeCalls[g].pc = "done") =>
      \A c \in storeCalls[g].setsDone :
        (\A c2 \in 1..Len(storeCalls) :
           (storeCalls[c2].op = "set"
              /\ storeCalls[c2].sessionId = storeCalls[g].sessionId)
             => c2 = c)
          => storeCalls[g].value = <<StateArg(storeCalls[c].kind)>>

\* ======================================================== unavailable results
\* What a store call handed to its caller.
Returned(c) == <<storeCalls[c].result, storeCalls[c].value>>

\* C31: the result of a getSessionState that failed because of the backend
\* differs from the result of a getSessionState that found no session.
C31_FailureDistinctFromNotFound ==
  \A g1, g2 \in 1..Len(storeCalls) :
    (/\ storeCalls[g1].op = "get" /\ storeCalls[g1].pc = "done"
     /\ storeCalls[g2].op = "get" /\ storeCalls[g2].pc = "done"
     /\ storeCalls[g1].failed
     /\ ~storeCalls[g2].failed
     /\ storeCalls[g2].value = NoValue)
      => Returned(g1) # Returned(g2)

\* ========================================================= scheduled sessions
\* Array.prototype.find / some / findIndex on registeredParticipants, by
\* userId.
IsRegistered(doc, userId) ==
  \E i \in 1..Len(doc.registeredParticipants) :
    doc.registeredParticipants[i] = userId

\* Array.prototype.splice(index, 1) at the first entry of userId.
RECURSIVE SpliceFirst(_, _)
SpliceFirst(seq, userId) ==
  IF seq = <<>> THEN <<>>
  ELSE IF Head(seq) = userId THEN Tail(seq)
  ELSE <<Head(seq)>> \o SpliceFirst(Tail(seq), userId)

\* Mutant of addParticipant: the capacity test is `>` instead of `>=`.
addParticipantOffByOne(doc, userId) ==
  IF IsRegistered(doc, userId)
    THEN [doc |-> doc, success |-> FALSE, message |-> "Already registered"]
  ELSE IF Len(doc.registeredParticipants) > doc.maxParticipants
    THEN [doc |-> doc, success |-> FALSE, message |-> "Session is full"]
  ELSE IF doc.registrationDeadline # NoDeadline /\ now > doc.registrationDeadline
    THEN [doc |-> doc, success |-> FALSE,
          message |-> "Registration deadline has passed"]
  ELSE [doc |-> [doc EXCEPT !.registeredParticipants = Append(@, userId)],
        success |-> TRUE, message |-> "Successfully registered"]

\* methods.addParticipant: the document afterwards and the returned object.
addParticipant(doc, userId) ==
  IF IsRegistered(doc, userId)
    THEN [doc |-> doc, success |-> FALSE, message |-> "Already registered"]
  ELSE IF Len(doc.registeredParticipants) >= doc.maxParticipants
    THEN [doc |-> doc, success |-> FALSE, message |-> "Session is full"]
  ELSE IF doc.registrationDeadline # NoDeadline /\ now > doc.registrationDeadline
    THEN [doc |-> doc, success |-> FALSE,
          message |-> "Registration deadline has passed"]
  ELSE [doc |-> [doc EXCEPT !.registeredParticipants = Append(@, userId)],
        success |-> TRUE, message |-> "Successfully registered"]

\* methods.removeParticipant
removeParticipant(doc, userId) ==
  IF ~IsRegistered(doc, userId)
    THEN [doc |-> doc, success |-> FALSE, message |-> "Participant not found"]
  ELSE [doc |-> [doc EXCEPT !.registeredParticipants = SpliceFirst(@, userId)],
        success |-> TRUE, message |-> "Successfully removed"]

\* A request on the scheduled session: the document it works on (before:
\* as loaded; doc: as the request has changed it) and its answer.
NewReq(kind, userId, before, r, pc) ==
  [ kind |-> kind, userId |-> userId, before |-> before, doc |-> r.doc,
    success |-> r.success, message |-> r.message, at |-> now, pc |-> pc ]

\* session.addParticipant(...) / session.removeParticipant(...) on the
\* document, one call after the other.
doc_addParticipant(userId) ==
  /\ Len(reqs) < MaxReqs
  /\ schedDb' = addParticipant(schedDb, userId).doc
  /\ reqs' = Append(reqs, NewReq("add", userId, schedDb,
                                 addParticipant(schedDb, userId), "done"))
  /\ UNCHANGED <<coreVars, liveDb, hookVars>>

doc_removeParticipant(userId) ==
  /\ Len(reqs) < MaxReqs
  /\ schedDb' = removeParticipant(schedDb, userId).doc
  /\ reqs' = Append(reqs, NewReq("remove", userId, schedDb,
                                 removeParticipant(schedDb, userId), "done"))
  /\ UNCHANGED <<coreVars, liveDb, hookVars>>

\* The session manager is in Redis mode and holds no session.
IdleManager ==
  /\ redis = TRUE
  /\ redisData = [s \in Sessions |-> <<>>]
  /\ sessionStates = [s \in Sessions |-> NoRef]
  /\ objs = <<>>
  /\ arrs = <<>>
  /\ calls = <<>>

\* Everything but the scheduled session is idle.
IdleButSchedule ==
  /\ IdleHandlers
  /\ IdleLogs
  /\ IdleStore
  /\ IdleHook
  /\ IdleManager

\* The document has a registration deadline at time 0, or none.
InitRegistry ==
  /\ IdleButSchedule
  /\ schedDb \in {NewDoc(MaxParticipants, d) : d \in {NoDeadline, 0}}
  /\ liveDb = <<>>
  /\ reqs = <<>>

NextRegistry ==
  \/ \E u \in Users : doc_addParticipant(u)
  \/ \E u \in Users : doc_removeParticipant(u)
  \/ Tick

SpecRegistry ==
  /\ InitRegistry
  /\ [][NextRegistry]_vars

\* ------------------------------------------------------- registration claims
NoDuplicateUsers(doc) ==
  \A i, j \in 1..Len(doc.registeredParticipants) :
    doc.registeredParticipants[i] = doc.registeredParticipants[j] => i = j

WithinCapacity(doc) == Len(doc.registeredParticipants) <= doc.maxParticipants

\* C32: after any sequence of addParticipant and removeParticipant calls
\* registeredParticipants has no userId twice and at most maxParticipants
\* entries; an addParticipant for a registered user, on a full list or past
\* the deadline returns success false with its message and leaves the list
\* unchanged.
C32_RegistrationLimits ==
  /\ NoDuplicateUsers(schedDb)
  /\ WithinCapacity(schedDb)
  /\ \A r \in 1..Len(reqs) :
       reqs[r].kind = "add" =>
         LET dup == IsRegistered(reqs[r].before, reqs[r].userId)
             full == Len(reqs[r].before.registeredParticipants)
                       >= reqs[r].before.maxParticipants
             late == /\ reqs[r].before.registrationDeadline # NoDeadline
                     /\ reqs[r].at > reqs[r].before.registrationDeadline
         IN /\ (dup \/ full \/ late) <=> ~reqs[r].success
            /\ ~reqs[r].success => reqs[r].doc = reqs[r].before
            /\ reqs[r].success =>
                 reqs[r].doc.registeredParticipants
                   = Append(reqs[r].before.registeredParticipants, reqs[r].userId)
            /\ dup => reqs[r].message = "Already registered"
            /\ (full /\ ~dup) => reqs[r].message = "Session is full"
            /\ (late /\ ~dup /\ ~full)
                 => reqs[r].message = "Registration deadline has passed"

\* A registration has been refused on a full list, after two were accepted.
C32_Witness ==
  /\ Len(schedDb.registeredParticipants) = schedDb.maxParticipants
  /\ \E r \in 1..Len(reqs) :
       /\ reqs[r].kind = "add"
       /\ ~reqs[r].success
       /\ reqs[r].message = "Session is full"

\* ------------------------------------------------- POST /:sessionId/register
\* The route up to `await session.save()`: findOne gives the request its own
\* copy of the stored document; the status test; addParticipant on the copy.
register_load(userId) ==
  /\ Len(reqs) < MaxReqs
  /\ LET r == IF schedDb.status # "scheduled"
                THEN [doc |-> schedDb, success |-> FALSE,
                      message |-> "Registration not available for this session"]
                ELSE addParticipant(schedDb, userId)
     IN reqs' = Append(reqs, NewReq("register", userId, schedDb, r,
                                    IF r.success THEN "saving" ELSE "done"))
  /\ UNCHANGED <<coreVars, schedDb, liveDb, hookVars>>

\* session.save() of a document whose only change is a push to
\* registeredParticipants: the pushed entry is appended to the stored array
\* (the update is a $push of the new element), or the save rejects and the
\* route answers 500.
register_save(r, ok) ==
  /\ r \in 1..Len(reqs)
  /\ reqs[r].kind = "register" /\ reqs[r].pc = "saving"
  /\ schedDb' =
       IF ok THEN [schedDb EXCEPT !.registeredParticipants =
                     Append(@, reqs[r].userId)]
       ELSE schedDb
  /\ reqs' = [reqs EXCEPT ![r].pc = "done", ![r].success = ok,
                          ![r].message = IF ok THEN @ ELSE "Registration failed"]
  /\ UNCHANGED <<coreVars, liveDb, hookVars>>

NextRegister ==
  \/ \E u \in Users : register_load(u)
  \/ \E r \in 1..MaxReqs, ok \in BOOLEAN : register_save(r, ok)
  \/ Tick

SpecRegister ==
  /\ InitRegistry
  /\ [][NextRegister]_vars

\* C33: with overlapping register requests the stored
\* registeredParticipants still has no userId twice and at most
\* maxParticipants entries.
C33_LimitsUnderInterleaving ==
  /\ NoDuplicateUsers(schedDb)
  /\ WithinCapacity(schedDb)

\* ---------------------------------------------------- POST /:sessionId/start
\* virtual canStart: from scheduledDateTime to the end of the grace period
\* (15 minutes, beyond the times of the model).
canStart(doc) == now >= doc.scheduledDateTime

\* The id of the live session: `live-${scheduledSession.id}`.
LiveId == "live-s"

\* The route up to `await liveSession.save()`: findOne, the host test,
\* canStart and the status test on the loaded copy.
start_load(userId) ==
  /\ Len(reqs) < MaxReqs
  /\ LET msg == IF schedDb.hostId # userId
                  THEN "Only the host can start this session"
                ELSE IF ~canStart(schedDb)
                  THEN "Session cannot be started yet"
                ELSE IF schedDb.status \notin {"scheduled", "ready"}
                  THEN "Session already started or ended"
                ELSE "none"
     IN reqs' = Append(reqs,
          NewReq("start", userId, schedDb,
                 [doc |-> schedDb, success |-> FALSE, message |-> msg],
                 IF msg = "none" THEN "liveSave" ELSE "done"))
  /\ UNCHANGED <<coreVars, schedDb, liveDb, hookVars>>

\* liveSession.save(): the LiveSanctuarySession document is stored. When a
\* document with the same id is already stored the save is accepted or
\* rejected as a duplicate, depending on whether the collection has a
\* unique index on id; a rejected save ends the request with 500.
start_liveSave(r, accepted) ==
  /\ r \in 1..Len(reqs)
  /\ reqs[r].kind = "start" /\ reqs[r].pc = "liveSave"
  /\ accepted \/ \E i \in 1..Len(liveDb) : liveDb[i].id = LiveId
  /\ liveDb' = IF accepted THEN Append(liveDb, [id |-> LiveId, req |-> r])
               ELSE liveDb
  /\ reqs' = [reqs EXCEPT
       ![r].pc = IF accepted THEN "transition" ELSE "done",
       ![r].message = IF accepted THEN @ ELSE "Failed to start sanctuary"]
  /\ UNCHANGED <<coreVars, schedDb, hookVars>>

\* methods.transitionToLive: status, liveSessionId and actualStartTime are
\* set on the request's copy and saved; then the route answers success.
transitionToLive(doc, liveId) ==
  [doc EXCEPT !.status = "live", !.liveSessionId = liveId]

start_transition(r) ==
  /\ r \in 1..Len(reqs)
  /\ reqs[r].kind = "start" /\ reqs[r].pc = "transition"
  /\ schedDb' = transitionToLive(schedDb, LiveId)
  /\ reqs' = [reqs EXCEPT ![r].pc = "done", ![r].success = TRUE,
                          ![r].doc = transitionToLive(reqs[r].doc, LiveId),
                          ![r].message = "Scheduled sanctuary started successfully"]
  /\ UNCHANGED <<coreVars, liveDb, hookVars>>

NextStart ==
  \/ \E u \in Users : start_load(u)
  \/ \E r \in 1..MaxReqs, accepted \in BOOLEAN : start_liveSave(r, accepted)
  \/ \E r \in 1..MaxReqs : start_transition(r)
  \/ Tick

SpecStart ==
  /\ InitRegistry
  /\ [][NextStart]_vars

\* C34: a scheduled session goes live at most once: at most one start
\* request has succeeded and at most one live session has been created.
C34_LiveAtMostOnce ==
  /\ Len(liveDb) <= 1
  /\ \A r1, r2 \in 1..Len(reqs) :
       (/\ reqs[r1].kind = "start" /\ reqs[r1].success
        /\ reqs[r2].kind = "start" /\ reqs[r2].success)
         => r1 = r2

\* ------------------------------------------------------ delivery outcomes
\* The delivery outcomes of handler h: the message_blocked notices to the
\* sender and the sanctuary_new_message broadcasts to the room.
DeliveryOutcomes(h) ==
  {i \in EmittedBy(h) : emitted[i].ev \in {"message_blocked", "sanctuary_new_message"}}

\* C35: every handled sanctuary_message has exactly one delivery outcome:
\* one message_blocked notice or one sanctuary_new_message broadcast, never
\* both, never neither, never two broadcasts.
C35_ExactlyOneDeliveryOutcome ==
  \A h \in 1..Len(handlers) :
    Handled(h) => Cardinality(DeliveryOutcomes(h)) = 1

\* ------------------------------------------------------ active speakers
\* The connected sockets whose voice stream is active.
ActiveStreams == {p \in Pids : connected[p] /\ voiceStreamActive[p]}

\* C36: the active-speaker counts never go below zero and together equal
\* the number of connected sockets whose voice stream is active, once every
\* voice_stream_start handler has finished.
C36_SpeakerCountMatchesStreams ==
  /\ \A s \in Sessions : activeSpeakers[s] >= 0
  /\ (\A h \in 1..Len(handlers) : handlers[h].pc = "done")
       => activeSpeakers["A"] + activeSpeakers["moderators_A"]
            = Cardinality(ActiveStreams)

\* ---------------------------------------------------- voice_stream_data
\* socket.on('voice_stream_data'): returns at once when the socket's stream
\* is not active; otherwise awaits voiceService.processAudioStream.
voice_stream_data(p, s) ==
  /\ connected[p]
  /\ Len(handlers) < MaxEvents
  /\ handlers' = Append(handlers,
       NewHandler("vdata", p, s,
                  IF voiceStreamActive[p] THEN "processing" ELSE "done", "none"))
  /\ UNCHANGED <<extVars, storeVars, rosterVars, logVars, connected, socketSession, voiceStreamActive,
                 activeSpeakers, emitted>>

\* processAudioStream settles: the modulated chunk is broadcast to the audio
\* room, or (catch) the original chunk is broadcast with fallback: true.
\* Either way one participant_audio_stream is emitted.
voice_data_processed(h, ok) ==
  /\ h \in 1..Len(handlers)
  /\ handlers[h].kind = "vdata" /\ handlers[h].pc = "processing"
  /\ emitted' = Append(emitted,
       Emit("participant_audio_stream", AudioRoom(handlers[h].sessionId),
            handlers[h].pid, h))
  /\ handlers' = [handlers EXCEPT ![h].pc = "done",
                                  ![h].path = IF ok THEN "modulated" ELSE "fallback"]
  /\ UNCHANGED <<extVars, storeVars, rosterVars, logVars, connected, socketSession, voiceStreamActive,
                 activeSpeakers>>

\* The participant_speaking_start emits of the streams in `active`, as the
\* voice_stream_start handlers that authorized them left them.
RECURSIVE StartedEmits(_)
StartedEmits(active) ==
  IF active = {} THEN <<>>
  ELSE LET p == CHOOSE q \in active : TRUE
       IN <<[ev |-> "participant_speaking_start",
             to |-> AudioRoom(socketSession[p]), pid |-> p, h |-> 0,
             senderConnected |-> TRUE]>> \o StartedEmits(active \ {p})

\* The sockets are connected and some of them have an authorized voice
\* stream running.
InitVoice ==
  /\ IdleLogs
  /\ IdleSchedule
  /\ IdleHook
  /\ IdleStore
  /\ redis = TRUE
  /\ sessionStates = [s \in Sessions |-> NoRef]
  /\ objs = <<>>
  /\ arrs = <<>>
  /\ calls = <<>>
  /\ socketSession \in [Pids -> Sessions]
  /\ redisData = [s \in Sessions |-> <<JoinedValue(s, socketSession)>>]
  /\ connected = [p \in Pids |-> TRUE]
  /\ voiceStreamActive \in [Pids -> BOOLEAN]
  /\ activeSpeakers =
       [s \in Sessions |->
          Cardinality({p \in Pids : voiceStreamActive[p] /\ socketSession[p] = s})]
  /\ handlers = <<>>
  /\ emitted = StartedEmits({p \in Pids : voiceStreamActive[p]})

NextVoice ==
  \/ \E p \in Pids, s \in Sessions : voice_stream_start(p, s)
  \/ \E h \in 1..MaxEvents, canSpeak, checkOk, incOk \in BOOLEAN :
       voice_stream_started(h, canSpeak, checkOk, incOk)
  \/ \E p \in Pids, s \in Sessions : voice_stream_data(p, s)
  \/ \E h \in 1..MaxEvents, ok \in BOOLEAN : voice_data_processed(h, ok)
  \/ \E p \in Pids, s \in Sessions, decOk \in BOOLEAN :
       voice_stream_end(p, s, decOk)
  \/ \E p \in Pids, decOk \in BOOLEAN : handleDisconnect(p, decOk)

SpecVoice == InitVoice /\ [][NextVoice]_vars

\* C37: every participant_audio_stream of a participant is emitted inside
\* an authorized speaking interval: a participant_speaking_start of that
\* participant precedes it with no participant_speaking_end of that
\* participant in between.
C37_AudioOnlyWhileSpeaking ==
  \A j \in 1..Len(emitted) :
    emitted[j].ev = "participant_audio_stream" =>
      \E i \in 1..(j - 1) :
        /\ emitted[i].ev = "participant_speaking_start"
        /\ emitted[i].pid = emitted[j].pid
        /\ \A k \in (i + 1)..(j - 1) :
             ~(/\ emitted[k].ev = "participant_speaking_end"
               /\ emitted[k].pid = emitted[j].pid)

\* ------------------------------------------------- each event exactly once
\* How often the event of analysis a is among the returned logs.
Occurrences(logs, a) == Cardinality({i \in 1..Len(logs) : logs[i].a = a})

\* The analyses of session s whose logModerationEvent call returned true.
LoggedFor(s) ==
  {a \in 1..Len(analyses) :
     analyses[a].logResult = "true" /\ analyses[a].sessionId = s}

\* The analyses of session s.
AnalysesOf(s) == {a \in 1..Len(analyses) : analyses[a].sessionId = s}

\* C38: once the logModerationEvent calls of a session have returned, while
\* none of its events has expired and the limit covers them,
\* getModerationLogs returns every logged event of the session exactly once.
C38_EachLoggedEventOnce ==
  \A s \in Sessions, limit \in 1..MaxLimit :
    (/\ \A a \in AnalysesOf(s) : analyses[a].pc = "returned"
     /\ Cardinality(AnalysesOf(s)) <= limit
     /\ \A a \in AnalysesOf(s) : <<"moderation", a>> \notin expired)
      => \A a \in LoggedFor(s) :
           Occurrences(getModerationLogs(s, limit), a) = 1

\* logModerationEvent and getModerationLogs alone: analyses that log their
\* event while the clock may advance; nothing expires and nothing is
\* cleaned up.
NextLogs ==
  \/ \E s \in Sessions, p \in Pids :
       analyzeContent([isString |-> TRUE, chars |-> TextHello], s, p)
  \/ \E a \in 1..MaxAnalyses, ok \in BOOLEAN : log_setex(a, ok)
  \/ \E a \in 1..MaxAnalyses, ok \in BOOLEAN : log_lpush(a, ok)
  \/ \E a \in 1..MaxAnalyses, ok \in BOOLEAN : log_expire(a, ok)
  \/ Tick

SpecLogs == InitAnalyze /\ [][NextLogs]_vars

\* ------------------------------------------------------- POST /:sessionId/join
\* virtual isStartingSoon: inside the early-join buffer before the start.
StartingSoonAt(doc, t) ==
  /\ t >= doc.scheduledDateTime - doc.earlyJoinBuffer
  /\ t < doc.scheduledDateTime

isStartingSoon(doc) == StartingSoonAt(doc, now)

Statuses == {"scheduled", "ready", "live", "completed", "cancelled"}

AccessModes == {"public", "private", "invite_only"}

InviteCodes == {"code", "wrong"}

\* methods.canUserJoin(userId, inviteCode): {canJoin, reason}.
canUserJoin(doc, userId, inviteCode) ==
  IF /\ doc.status \notin {"ready", "live"}
     /\ doc.status = "scheduled" /\ ~isStartingSoon(doc)
    THEN [canJoin |-> FALSE, reason |-> "Session not yet started"]
  ELSE IF doc.accessMode = "private"
    THEN [canJoin |-> FALSE, reason |-> "Private session"]
  ELSE IF doc.accessMode = "invite_only" /\ inviteCode # doc.invitationCode
    THEN [canJoin |-> FALSE, reason |-> "Invalid invitation code"]
  ELSE IF doc.registrationRequired /\ ~IsRegistered(doc, userId)
    THEN [canJoin |-> FALSE, reason |-> "Registration required"]
  ELSE [canJoin |-> TRUE, reason |-> "none"]

\* The route: findOne, canUserJoin (403 with its reason), then the redirect
\* to the live session, the waiting room, or the access answer.
join(userId, inviteCode) ==
  /\ Len(reqs) < MaxReqs
  /\ LET check == canUserJoin(schedDb, userId, inviteCode)
         answer == IF ~check.canJoin THEN check.reason
                   ELSE IF schedDb.status = "live" /\ schedDb.liveSessionId # "none"
                     THEN "Session is live, redirecting"
                   ELSE IF schedDb.status = "scheduled" /\ ~isStartingSoon(schedDb)
                     THEN "Session not started yet"
                   ELSE "Ready to join sanctuary"
     IN reqs' = Append(reqs,
          NewReq("join", userId, schedDb,
                 [doc |-> schedDb, success |-> check.canJoin, message |-> answer],
                 "done"))
  /\ UNCHANGED <<coreVars, schedDb, liveDb, hookVars>>

\* A session document in any status, access mode and registration setting,
\* with u2 registered.
JoinDocs ==
  {[NewDoc(MaxParticipants, NoDeadline) EXCEPT
      !.status = st, !.accessMode = am, !.registrationRequired = rr,
      !.earlyJoinBuffer = b,
      !.liveSessionId = IF st \in {"live", "completed"} THEN LiveId ELSE "none",
      !.registeredParticipants = <<"u2">>] :
     st \in Statuses, am \in AccessModes, rr \in BOOLEAN, b \in 0..1}

InitJoin ==
  /\ IdleButSchedule
  /\ schedDb \in JoinDocs
  /\ liveDb = <<>>
  /\ reqs = <<>>

NextJoin ==
  \/ \E u \in Users, c \in InviteCodes : join(u, c)
  \/ Tick

SpecJoin == InitJoin /\ [][NextJoin]_vars

\* C39: canUserJoin grants access only to a session that is ready, live, or
\* scheduled and starting soon; a completed or cancelled session is refused.
C39_JoinOnlyOpenSessions ==
  \A r \in 1..Len(reqs) :
    (reqs[r].kind = "join" /\ reqs[r].success) =>
      \/ reqs[r].before.status \in {"ready", "live"}
      \/ /\ reqs[r].before.status = "scheduled"
         /\ StartingSoonAt(reqs[r].before, reqs[r].at)

\* ------------------------------------------------ useSanctuarySocket.onEvent
\* The handler functions a component passes to onEvent.
HandlerFns == {1, 2}

\* socket.off(event, fn): the first listener that is fn is removed.
RECURSIVE Off(_, _)
Off(listeners, fn) ==
  IF listeners = <<>> THEN <<>>
  ELSE IF Head(listeners) = fn THEN Tail(listeners)
  ELSE <<Head(listeners)>> \o Off(Tail(listeners), fn)

\* onEvent(event, handler) with the socket present: the listener the map
\* names is taken off, the handler is put on and recorded in the map, and
\* the cleanup function is returned.
onEvent(ev, fn) ==
  /\ Len(cleanups) < MaxRegs
  /\ LET existingHandler == eventListenersRef[ev]
         afterOff == IF existingHandler # NoHandler
                       THEN Off(socketListeners[ev], existingHandler)
                       ELSE socketListeners[ev]
     IN socketListeners' = [socketListeners EXCEPT ![ev] = Append(afterOff, fn)]
  /\ eventListenersRef' = [eventListenersRef EXCEPT ![ev] = fn]
  /\ cleanups' = Append(cleanups, [event |-> ev, handler |-> fn, run |-> FALSE])
  /\ UNCHANGED <<coreVars, schedVars>>

\* The cleanup function onEvent returned on its c-th call is invoked:
\* socket.off(event, handler) and eventListenersRef.current.delete(event).
cleanup_run(c) ==
  /\ c \in 1..Len(cleanups)
  /\ ~cleanups[c].run
  /\ socketListeners' = [socketListeners EXCEPT
       ![cleanups[c].event] = Off(@, cleanups[c].handler)]
  /\ eventListenersRef' = [eventListenersRef EXCEPT ![cleanups[c].event] = NoHandler]
  /\ cleanups' = [cleanups EXCEPT ![c].run = TRUE]
  /\ UNCHANGED <<coreVars, schedVars>>

InitHook ==
  /\ IdleButSchedule
  /\ IdleSchedule

NextHook ==
  \/ \E ev \in Events, fn \in HandlerFns : onEvent(ev, fn)
  \/ \E c \in 1..MaxRegs : cleanup_run(c)

SpecHook == InitHook /\ [][NextHook]_vars

\* The calls of onEvent for ev whose cleanup function has not run.
LiveRegs(ev) ==
  {c \in 1..Len(cleanups) : cleanups[c].event = ev /\ ~cleanups[c].run}

\* C40: the socket has at most one listener per event, and a listener is
\* the handler of the latest onEvent call for the event whose cleanup has
\* not run.
C40_OneListenerPerEvent ==
  \A ev \in Events :
    /\ Len(socketListeners[ev]) <= 1
    /\ Len(socketListeners[ev]) = 1 =>
         /\ LiveRegs(ev) # {}
         /\ \E c \in LiveRegs(ev) :
              /\ \A d \in LiveRegs(ev) : d <= c
              /\ socketListeners[ev][1] = cleanups[c].handler
====
